---- MODULE Spec2Model ----
(***************************************************************************)
(* Model of the Reddit comment-to-story pipeline: the content source       *)
(* adapter (backend/reddit_scraper.py), the prompt assembler               *)
(* (backend/prompt_builder.py), the provider abstraction                   *)
(* (backend/ai_client.py) and the story composer                           *)
(* (backend/story_generator.py).                                           *)
(*                                                                         *)
(* Text is modelled as a sequence of one-character strings, so that        *)
(* len(), slicing, strip() and split() act on characters as in Python.     *)
(***************************************************************************)
EXTENDS Integers, Sequences, FiniteSets, TLC

VARIABLES
    \* --- cleaning of one comment body (RedditScraper._clean_comment_body)
    body,        \* the raw body text handed to the cleaning transform
    cleaned,     \* _clean_comment_body(body)
    recleaned,   \* _clean_comment_body(cleaned)
    cleanPc,     \* "off" | "init" | "cleaned" | "recleaned"
    \* --- validity of one comment (RedditScraper._is_valid_comment)
    comment,     \* the platform comment under test
    verdict,     \* _is_valid_comment(comment)
    validPc,     \* "off" | "init" | "done"
    \* --- one comment fetch (RedditScraper.get_top_comments)
    fetched,     \* submission.comments.list(), in the platform's order
    limit,       \* the limit argument
    result,      \* the returned list of RedditComment
    fetchPc,     \* "off" | "init" | "done"
    \* --- a batch run (StoryGenerator.generate_from_subreddit)
    provider_name,  \* AIClient.provider_name, set when the client is built
    style,          \* the style the caller asks for
    submissions,    \* what the platform serves for subreddit.top(...)
    posts,          \* the list get_top_posts returned
    idx,            \* place in posts of the post being processed (the loop's i)
    comments,       \* the comments fetched for that post
    prompt,         \* the StoryPrompt built for that post
    story_content,  \* the text the provider returned for that post
    stories,        \* the list of GeneratedStory collected so far
    requests,       \* the requests sent to the remote generation API, each
                    \* with the id of the post it was made for
    log,            \* what the logger recorded about each post's attempt
    exc,            \* the exception in flight, or "none"
    pc,             \* "off" | "start" | "loop" | "fetched" | "prompted" |
                    \* "generated" | "except" | "returned" | "raised", and in
                    \* a single-post run "cli_start" | "cli_loop" |
                    \* "cli_fetched" | "cli_prompted" | "cli_generated" |
                    \* "cli_story" | "cli_except" | "cli_break" | "exited" |
                    \* "crashed"
    \* --- a single-post run (cli.cmd_generate), with the variables above
    story_generated,  \* the flag of the same name
    saved,            \* the ids of the stories written to disk
    exit_code,        \* what cmd_generate returned, -1 while it has not
    \* --- one call of PromptBuilder.build_story_prompt
    build_style,      \* its style argument
    build_min,        \* its min_words argument: <<>> for None, or <<n>>
    build_max,        \* its max_words argument: <<>> for None, or <<n>>
    build_comments,   \* its comments argument
    built,            \* the StoryPrompt it returned
    build_post,       \* its post argument
    composed,         \* the GeneratedStory the rest of generate_from_post
                      \* made of the same arguments, <<>> before
    buildPc,          \* "off" | "init" | "done" | "composed" | "failed"
    \* --- one call of StoryGenerator._generate_story_title
    given_title,      \* its post_title argument
    title_style,      \* its style argument
    story_title,      \* the title it returned
    titlePc,          \* "off" | "init" | "done"
    \* --- one call of RedditScraper.get_top_posts
    available,        \* the submissions the platform ranks, best first
    post_limit,       \* the limit argument
    cursor,           \* how many submissions the loop has taken
    acc,              \* the local list `posts` of the loop
    top_posts,        \* the list handed to the caller
    postsPc,          \* "off" | "iter" | "returned" | "raised"
    \* --- a setup session: the scraper's probe, then an AIClient
    probe_remote,     \* what front.hot(limit=1) does: "item" | "empty" | "error"
    probe_result,     \* what test_connection returned, "unset" before
    env,              \* the environment variables read by Config.from_env
    config,           \* the global Config
    provider_arg,     \* the provider argument of AIClient(...): "" for None
    client,           \* the AIClient, or the failure of its construction
    calls,            \* the calls made on the client's provider
    setupPc,          \* "off" | "probe" | "sample" | "construct" | "ready" |
                      \* "probed" | "done" | "failed" | "crashed"
    \* --- a Config that is validated and then used to construct an AIClient
    checked_config,   \* the Config
    validate_result,  \* what Config.validate returned
    constructed,      \* the AIClient built from it, or the failure
    checkPc           \* "off" | "init" | "validated" | "constructed"

cleanVars == <<body, cleaned, recleaned, cleanPc>>
validVars == <<comment, verdict, validPc>>
fetchVars == <<fetched, limit, result, fetchPc>>

batchVars ==
    <<provider_name, style, submissions, posts, idx, comments, prompt,
      story_content, stories, requests, log, exc, pc>>

cliVars == <<story_generated, saved, exit_code>>
buildVars ==
    <<build_style, build_min, build_max, build_comments, built, build_post,
      composed, buildPc>>
titleVars == <<given_title, title_style, story_title, titlePc>>
postsVars == <<available, post_limit, cursor, acc, top_posts, postsPc>>
checkVars == <<checked_config, validate_result, constructed, checkPc>>
sessionVars ==
    <<probe_remote, probe_result, env, config, provider_arg, client, calls, setupPc>>
setupVars == <<sessionVars, checkVars>>

coreVars == <<cleanVars, validVars, fetchVars, batchVars>>

\* the variables of the parts added to the first four
laterVars == <<cliVars, buildVars, titleVars, postsVars, setupVars>>

vars == <<cleanVars, validVars, fetchVars, batchVars, laterVars>>

(***************************************************************************)
(* Bounds of the model                                                     *)
(***************************************************************************)
\* number of text pieces a raw comment body is assembled from
MaxPieces == 4
\* length of the long filler piece (lets a body pass 1000 characters)
PadLen == 998
\* number of comments the platform returns for one submission
MaxFetched == 3
\* largest limit argument of get_top_comments
MaxLimit == 3
\* number of submissions the platform serves for one batch run
MaxPosts == 3
MaxBuildComments == 2
MaxCalls == 3

(***************************************************************************)
(* Python string primitives                                                *)
(***************************************************************************)
\* characters str.strip() removes (the ones the model's texts can hold)
Whitespace == {" ", "\t", "\n", "\r"}

Min(S) == CHOOSE i \in S : \A j \in S : i <= j

RECURSIVE lstrip(_)
lstrip(s) ==
    IF s = <<>> THEN <<>>
    ELSE IF Head(s) \in Whitespace THEN lstrip(Tail(s)) ELSE s

RECURSIVE rstrip(_)
rstrip(s) ==
    IF s = <<>> THEN <<>>
    ELSE IF s[Len(s)] \in Whitespace THEN rstrip(SubSeq(s, 1, Len(s) - 1)) ELSE s

\* str.strip()
strip(s) == rstrip(lstrip(s))

\* the start indices of the occurrences of m in s
Occurrences(s, m) ==
    {i \in 1..(Len(s) - Len(m) + 1) : SubSeq(s, i, i + Len(m) - 1) = m}

\* `m in s`
Contains(s, m) == Occurrences(s, m) # {}

\* s.split(m)[0]: the text before the first occurrence of m, or all of s
SplitFirst(s, m) ==
    IF Contains(s, m) THEN SubSeq(s, 1, Min(Occurrences(s, m)) - 1) ELSE s

\* s.split("\n")
RECURSIVE SplitLines(_)
SplitLines(s) ==
    LET nl == {i \in 1..Len(s) : s[i] = "\n"}
    IN  IF nl = {} THEN <<s>>
        ELSE <<SubSeq(s, 1, Min(nl) - 1)>> \o SplitLines(SubSeq(s, Min(nl) + 1, Len(s)))

\* "\n".join(lines)
RECURSIVE JoinLines(_)
JoinLines(lines) ==
    IF lines = <<>> THEN <<>>
    ELSE IF Len(lines) = 1 THEN lines[1]
    ELSE lines[1] \o <<"\n">> \o JoinLines(Tail(lines))

\* [line.strip() for line in lines if line.strip()]
RECURSIVE StrippedNonEmpty(_)
StrippedNonEmpty(lines) ==
    IF lines = <<>> THEN <<>>
    ELSE LET l == strip(Head(lines))
         IN  IF l = <<>> THEN StrippedNonEmpty(Tail(lines))
             ELSE <<l>> \o StrippedNonEmpty(Tail(lines))

(***************************************************************************)
(* Content source adapter: comment cleaning                                *)
(***************************************************************************)
MarkerUpper == <<"E", "D", "I", "T", ":">>
MarkerTitle == <<"E", "d", "i", "t", ":">>
Ellipsis == <<".", ".", ".">>

\* the length above which a cleaned body is cut
CleanMaxLen == 1000

\* step 2 of _clean_comment_body: remove edit notes
RemoveEditNotes(c) ==
    IF Contains(c, MarkerUpper) \/ Contains(c, MarkerTitle)
    THEN strip(SplitFirst(SplitFirst(c, MarkerUpper), MarkerTitle))
    ELSE c

\* step 3 of _clean_comment_body: remove excessive newlines
RemoveBlankLines(c) == JoinLines(StrippedNonEmpty(SplitLines(c)))

\* a length limit that also cuts a body of exactly 1000 characters
LimitLengthInclusive(c) ==
    IF Len(c) >= CleanMaxLen THEN SubSeq(c, 1, CleanMaxLen) \o Ellipsis ELSE c

\* step 4 of _clean_comment_body: limit the length
LimitLength(c) ==
    IF Len(c) > CleanMaxLen THEN SubSeq(c, 1, CleanMaxLen) \o Ellipsis ELSE c

\* a cleaning that cuts the length before it drops the blank lines
clean_comment_body_swapped(b) ==
    RemoveBlankLines(LimitLength(RemoveEditNotes(strip(b))))

\* RedditScraper._clean_comment_body
clean_comment_body(b) ==
    LimitLength(RemoveBlankLines(RemoveEditNotes(strip(b))))

(***************************************************************************)
(* Content source adapter: comment validity and comment fetch              *)
(***************************************************************************)
\* comment.author is None / comment.body is None
NoAuthor == "<None>"
NoBody == <<"<None>">>

BodyRemoved == <<"[", "r", "e", "m", "o", "v", "e", "d", "]">>
BodyDeleted == <<"[", "d", "e", "l", "e", "t", "e", "d", "]">>

BOT_ACCOUNTS ==
    {"AutoModerator", "RemindMeBot", "WikiTextBot", "TotesMessenger",
     "GoodBot_BadBot", "B0tRank", "RepostSleuthBot"}

\* config.min_comment_score (its default)
min_comment_score == 10

\* the least length of a trimmed body
MinBodyLen == 20

\* a validity check that asks for a score above the minimum
is_valid_comment_above(c) ==
    IF c.author = NoAuthor THEN FALSE
    ELSE IF c.body \in {BodyRemoved, BodyDeleted, NoBody} THEN FALSE
    ELSE IF c.author \in BOT_ACCOUNTS THEN FALSE
    ELSE IF c.score <= min_comment_score THEN FALSE
    ELSE IF Len(strip(c.body)) < MinBodyLen THEN FALSE
    ELSE TRUE

\* RedditScraper._is_valid_comment
is_valid_comment(c) ==
    IF c.author = NoAuthor THEN FALSE
    ELSE IF c.body \in {BodyRemoved, BodyDeleted, NoBody} THEN FALSE
    ELSE IF c.author \in BOT_ACCOUNTS THEN FALSE
    ELSE IF c.score < min_comment_score THEN FALSE
    ELSE IF Len(strip(c.body)) < MinBodyLen THEN FALSE
    ELSE TRUE

\* s[:n]
SliceTo(s, n) ==
    IF n >= 0 THEN SubSeq(s, 1, IF n < Len(s) THEN n ELSE Len(s))
    ELSE SubSeq(s, 1, IF Len(s) + n > 0 THEN Len(s) + n ELSE 0)

\* the valid comments of the tree, in the tree's order
ValidComments(tree) == SelectSeq(tree, is_valid_comment)

\* c put into a list sorted by descending score, before its equals
RECURSIVE InsertBeforeEquals(_, _)
InsertBeforeEquals(sorted, c) ==
    IF sorted = <<>> THEN <<c>>
    ELSE IF Head(sorted).score > c.score
         THEN <<Head(sorted)>> \o InsertBeforeEquals(Tail(sorted), c)
         ELSE <<c>> \o sorted

\* c put into a list sorted by descending score, behind the comments whose
\* score is at least its own
RECURSIVE InsertByScore(_, _)
InsertByScore(sorted, c) ==
    IF sorted = <<>> THEN <<c>>
    ELSE IF Head(sorted).score >= c.score
         THEN <<Head(sorted)>> \o InsertByScore(Tail(sorted), c)
         ELSE <<c>> \o sorted

\* a descending sort that puts a comment before the earlier comments of the
\* same score (an ascending sort, reversed)
RECURSIVE SortByScoreTiesReversed(_)
SortByScoreTiesReversed(cs) ==
    IF cs = <<>> THEN <<>>
    ELSE InsertBeforeEquals(SortByScoreTiesReversed(SubSeq(cs, 1, Len(cs) - 1)),
                            cs[Len(cs)])

\* list.sort(key=lambda c: c.score, reverse=True): a stable sort
RECURSIVE SortByScore(_)
SortByScore(cs) ==
    IF cs = <<>> THEN <<>>
    ELSE InsertByScore(SortByScore(SubSeq(cs, 1, Len(cs) - 1)), cs[Len(cs)])

\* the RedditComment made of a platform comment
ToRedditComment(c) ==
    [id |-> c.id,
     body |-> clean_comment_body(c.body),
     author |-> c.author,
     score |-> c.score,
     is_top_level |-> c.top_level]

ToRedditComments(cs) == [k \in 1..Len(cs) |-> ToRedditComment(cs[k])]

\* a fetch that cuts the list to the limit before it sorts it
get_top_comments_cut_first(tree, lim) ==
    ToRedditComments(SortByScore(SliceTo(ValidComments(tree), lim)))

\* RedditScraper.get_top_comments, when the remote calls succeed
get_top_comments(tree, lim) ==
    ToRedditComments(SliceTo(SortByScore(ValidComments(tree)), lim))

(***************************************************************************)
(* Content source adapter: posts                                           *)
(***************************************************************************)
SelftextRemoved == BodyRemoved

\* a check that skips a submission for its missing author alone
SkippedSubmissionAuthorOnly(sub) == sub.author = NoAuthor

\* whether get_top_posts skips the submission
SkippedSubmission(sub) == sub.author = NoAuthor \/ sub.selftext = SelftextRemoved

ToRedditPost(sub) ==
    [id |-> sub.id, title |-> sub.title, author |-> sub.author,
     score |-> sub.score, subreddit |-> sub.subreddit, url |-> sub.url,
     num_comments |-> sub.num_comments]

\* RedditScraper.get_top_posts, when the remote call succeeds
RECURSIVE get_top_posts(_)
get_top_posts(subs) ==
    IF subs = <<>> THEN <<>>
    ELSE IF SkippedSubmission(Head(subs)) THEN get_top_posts(Tail(subs))
    ELSE <<ToRedditPost(Head(subs))>> \o get_top_posts(Tail(subs))

(***************************************************************************)
(* Prompt assembler                                                        *)
(***************************************************************************)
STORY_STYLES ==
    "engaging" :>
        [description |-> "A balanced, engaging narrative",
         prompt_addon |->
            "Write in an engaging, accessible style that draws the reader in."]
    @@ "comedy" :>
        [description |-> "Humorous and light-hearted",
         prompt_addon |->
            "Write with humor and wit, finding the funny side of the situation."]
    @@ "drama" :>
        [description |-> "Emotional and character-driven",
         prompt_addon |->
            "Create a dramatic narrative focusing on emotions and character development."]
    @@ "documentary" :>
        [description |-> "Factual and journalistic",
         prompt_addon |->
            "Present the story in a documentary style, as if narrating real events."]
    @@ "wholesome" :>
        [description |-> "Uplifting and positive",
         prompt_addon |->
            "Focus on the heartwarming and positive aspects, creating an uplifting narrative."]
    @@ "thriller" :>
        [description |-> "Suspenseful and tense",
         prompt_addon |-> "Build suspense and tension throughout the narrative."]

\* config.story_min_words and config.story_max_words (their defaults)
story_min_words == 300
story_max_words == 500

\* the length above which a comment is cut in the prompt
PromptMaxCommentLen == 500

\* an Optional[int] argument is <<>> (None) or <<n>>; `opt or default`
OrDefault(opt, default) ==
    IF opt = <<>> THEN default
    ELSE IF opt[1] = 0 THEN default
    ELSE opt[1]

\* PromptBuilder._build_system_message
build_system_message(st) ==
    <<"You are a creative storyteller who transforms Reddit posts and comments into engaging narrative stories. You excel at weaving multiple perspectives into cohesive tales while maintaining the essence of the original content. ",
      STORY_STYLES[st].prompt_addon>>

\* comment lines that also cut a body of exactly 500 characters
RECURSIVE CommentLinesCutAtLimit(_, _)
CommentLinesCutAtLimit(cmts, k) ==
    IF k > Len(cmts) THEN <<>>
    ELSE LET text == cmts[k].body
             shown == IF Len(text) >= PromptMaxCommentLen
                      THEN SubSeq(text, 1, PromptMaxCommentLen) \o Ellipsis
                      ELSE text
         IN  <<"\n", ToString(k), ". ">> \o shown \o <<"\n">>
                 \o CommentLinesCutAtLimit(cmts, k + 1)

\* the numbered comment lines of the user prompt, from the k-th comment on
RECURSIVE CommentLines(_, _)
CommentLines(cmts, k) ==
    IF k > Len(cmts) THEN <<>>
    ELSE LET text == cmts[k].body
             shown == IF Len(text) > PromptMaxCommentLen
                      THEN SubSeq(text, 1, PromptMaxCommentLen) \o Ellipsis
                      ELSE text
         IN  <<"\n", ToString(k), ". ">> \o shown \o <<"\n">>
                 \o CommentLines(cmts, k + 1)

\* PromptBuilder._build_user_prompt
build_user_prompt(post, cmts, st, min_words, max_words) ==
    <<"Transform this Reddit post and its top comments into a ", st,
      " story.\n\n**Reddit Post from r/", post.subreddit, ":**\n\"">>
    \o post.title
    \o <<"\"\n\n**Top Comments from the community:**\n">>
    \o CommentLines(cmts, 1)
    \o <<"\n\n**Instructions:**\n- Create a cohesive narrative that naturally incorporates perspectives from all comments\n- The story should flow smoothly, not just list the comments\n- Maintain the spirit and tone of the original content\n- Write in third person unless first person serves the narrative better\n- Length: ",
         ToString(min_words), "-", ToString(max_words), " words\n- Style: ",
         STORY_STYLES[st].description, "\n\nBegin the story:">>

\* a build that writes the instructions of the fallback style and keeps the
\* style that was asked for
build_story_prompt_keeps_style(post, cmts, st, min_words, max_words) ==
    LET minw == OrDefault(min_words, story_min_words)
        maxw == OrDefault(max_words, story_max_words)
        used == IF st \notin DOMAIN STORY_STYLES THEN "engaging" ELSE st
    IN  [system_message |-> build_system_message(used),
         user_prompt |-> build_user_prompt(post, cmts, used, minw, maxw),
         post_data |->
            [title |-> post.title, subreddit |-> post.subreddit,
             score |-> post.score, num_comments |-> post.num_comments,
             comment_count |-> Len(cmts)],
         style |-> st,
         word_count |-> <<minw, maxw>>]

\* PromptBuilder.build_story_prompt
build_story_prompt(post, cmts, st, min_words, max_words) ==
    LET minw == OrDefault(min_words, story_min_words)
        maxw == OrDefault(max_words, story_max_words)
        used == IF st \notin DOMAIN STORY_STYLES THEN "engaging" ELSE st
    IN  [system_message |-> build_system_message(used),
         user_prompt |-> build_user_prompt(post, cmts, used, minw, maxw),
         post_data |->
            [title |-> post.title, subreddit |-> post.subreddit,
             score |-> post.score, num_comments |-> post.num_comments,
             comment_count |-> Len(cmts)],
         style |-> used,
         word_count |-> <<minw, maxw>>]

(***************************************************************************)
(* Generation provider abstraction                                         *)
(***************************************************************************)
Providers == {"openai", "anthropic", "bedrock"}

OPENAI_SYSTEM == <<"You are a creative storyteller who writes engaging narratives.">>

\* the request each provider's generate_completion sends for a prompt
ProviderRequest(name, prompt_text, max_tokens) ==
    IF name = "openai"
    THEN [provider |-> name, model |-> "gpt-4-turbo-preview",
          messages |-> <<[role |-> "system", content |-> OPENAI_SYSTEM],
                         [role |-> "user", content |-> prompt_text]>>,
          max_tokens |-> max_tokens, temperature |-> "0.8", top_p |-> "0.9"]
    ELSE IF name = "anthropic"
    THEN [provider |-> name, model |-> "claude-3-opus-20240229",
          messages |-> <<[role |-> "user", content |-> prompt_text]>>,
          max_tokens |-> max_tokens, temperature |-> "0.8", top_p |-> "unset"]
    ELSE [provider |-> name, model |-> "anthropic.claude-3-sonnet-20240229-v1:0",
          messages |-> <<[role |-> "user", content |-> prompt_text]>>,
          max_tokens |-> max_tokens, temperature |-> "0.8", top_p |-> "0.9"]

(***************************************************************************)
(* Configuration and client construction                                   *)
(***************************************************************************)
\* os.getenv of a variable that is not set, and a Config field that is None
Unset == "<None>"

\* the truth value Python gives a string or None
Truthy(v) == v # Unset /\ v # ""

\* Config.from_env: the provider tag and the credentials
from_env(e) ==
    [ai_provider |->
        IF Truthy(e.ANTHROPIC_API_KEY) THEN "anthropic"
        ELSE IF e.AWS_PROFILE = "personal" THEN "bedrock"
        ELSE "openai",
     openai_api_key |-> e.OPENAI_API_KEY,
     anthropic_api_key |-> e.ANTHROPIC_API_KEY,
     aws_profile |-> e.AWS_PROFILE]

\* the messages Config.validate collects
ValidateErrors(cfg) ==
    (IF ~Truthy(cfg.reddit_client_id)
     THEN <<"REDDIT_CLIENT_ID is required">> ELSE <<>>)
    \o (IF ~Truthy(cfg.reddit_client_secret)
        THEN <<"REDDIT_CLIENT_SECRET is required">> ELSE <<>>)
    \o (IF cfg.ai_provider = "openai" /\ ~Truthy(cfg.openai_api_key)
        THEN <<"OPENAI_API_KEY is required for OpenAI provider">>
        ELSE IF cfg.ai_provider = "anthropic" /\ ~Truthy(cfg.anthropic_api_key)
        THEN <<"ANTHROPIC_API_KEY is required for Anthropic provider">>
        ELSE IF cfg.ai_provider = "bedrock" /\ ~Truthy(cfg.aws_profile)
        THEN <<"AWS_PROFILE is required for Bedrock provider">>
        ELSE <<>>)

\* Config.validate
validate(cfg) == ValidateErrors(cfg) = <<>>

\* the provider class of each tag
ProviderClass ==
    "openai" :> "OpenAIProvider"
    @@ "anthropic" :> "AnthropicProvider"
    @@ "bedrock" :> "BedrockProvider"

\* the credential _initialize_provider asks of the config for a tag
CredentialOf(cfg, tag) ==
    IF tag = "openai" THEN cfg.openai_api_key
    ELSE IF tag = "anthropic" THEN cfg.anthropic_api_key
    ELSE cfg.aws_profile

\* a construction that leaves the managed-runtime profile to the first call
AIClient_profile_unchecked(arg, cfg) ==
    LET tag == IF Truthy(arg) THEN arg ELSE cfg.ai_provider
    IN  IF tag \notin DOMAIN ProviderClass
        THEN [state |-> "failed", provider_name |-> tag, provider |-> "",
              error |-> "ValueError"]
        ELSE IF tag # "bedrock" /\ ~Truthy(CredentialOf(cfg, tag))
        THEN [state |-> "failed", provider_name |-> tag, provider |-> "",
              error |-> "ValueError"]
        ELSE [state |-> "built", provider_name |-> tag,
              provider |-> ProviderClass[tag], error |-> ""]

\* AIClient.__init__ and _initialize_provider, when the provider's own
\* constructor succeeds
AIClient(arg, cfg) ==
    LET tag == IF Truthy(arg) THEN arg ELSE cfg.ai_provider
    IN  IF tag \notin DOMAIN ProviderClass
        THEN [state |-> "failed", provider_name |-> tag, provider |-> "",
              error |-> "ValueError"]
        ELSE IF ~Truthy(CredentialOf(cfg, tag))
        THEN [state |-> "failed", provider_name |-> tag, provider |-> "",
              error |-> "ValueError"]
        ELSE [state |-> "built", provider_name |-> tag,
              provider |-> ProviderClass[tag], error |-> ""]

\* a client that resolves its provider from the environment at every call
provider_resolved_per_call(cl, e) ==
    IF from_env(e).ai_provider \in DOMAIN ProviderClass
    THEN ProviderClass[from_env(e).ai_provider]
    ELSE cl.provider

\* the provider a call on the client goes to: self.provider, whatever the
\* environment holds by then (AIClient.generate_story, test_connection)
provider_of_call(cl, e) == cl.provider

\* a probe that reports an empty listing as a failure
test_connection_empty_fails(remote) ==
    IF remote = "item" THEN "True" ELSE "False"

\* RedditScraper.test_connection, by what front.hot(limit=1) does: it
\* yields an item, yields nothing, or raises
test_connection(remote) ==
    IF remote = "item" THEN "True"
    ELSE IF remote = "error" THEN "False"
    ELSE "True"

(***************************************************************************)
(* Story composer                                                          *)
(***************************************************************************)
\* the output-token ceiling generate_from_post passes
StoryMaxTokens == 1500

\* the length above which a comment preview is cut
PreviewLen == 100

\* the least comment count and the least number of valid comments of a post
\* that gets a story
MinPostComments == 5
MinValidComments == 3

\* config.default_comment_limit (its default)
default_comment_limit == 5

\* hasattr(provider, 'client') and hasattr(provider.client, 'chat'): true of
\* the OpenAI client alone
HasChatClient(name) == name = "openai"

\* the text generate_from_post hands to AIClient.generate_story
PromptTextFor(name, pr) ==
    IF HasChatClient(name) THEN pr.user_prompt
    ELSE pr.system_message \o <<"\n\n">> \o pr.user_prompt

\* len(text.split(" ")): the pieces between single spaces
WordCountBySpaces(text) ==
    Cardinality({k \in 1..Len(text) : text[k] = " "}) + 1

\* len(text.split())
WordCount(text) ==
    Cardinality({k \in 1..Len(text) :
        text[k] \notin Whitespace /\ (k = 1 \/ text[k - 1] \in Whitespace)})

STYLE_PREFIX ==
    "comedy" :> "The Hilarious Tale of"
    @@ "drama" :> "The Dramatic Story of"
    @@ "documentary" :> "The True Account of"
    @@ "wholesome" :> "The Heartwarming Story of"
    @@ "thriller" :> "The Suspenseful Tale of"
    @@ "engaging" :> "The Story of"

\* a title that keeps the question mark
generate_story_title_keeps_mark(post_title, st) ==
    LET prefix == IF st \in DOMAIN STYLE_PREFIX THEN STYLE_PREFIX[st]
                  ELSE "The Story of"
    IN  IF post_title # <<>> /\ post_title[Len(post_title)] = "?"
        THEN <<prefix, " ">> \o post_title
        ELSE <<prefix, ": ">> \o post_title

\* StoryGenerator._generate_story_title
generate_story_title(post_title, st) ==
    LET prefix == IF st \in DOMAIN STYLE_PREFIX THEN STYLE_PREFIX[st]
                  ELSE "The Story of"
    IN  IF post_title # <<>> /\ post_title[Len(post_title)] = "?"
        THEN <<prefix, " ">> \o SubSeq(post_title, 1, Len(post_title) - 1)
        ELSE <<prefix, ": ">> \o post_title

Preview(text) ==
    IF Len(text) > PreviewLen THEN SubSeq(text, 1, PreviewLen) \o Ellipsis ELSE text

\* the GeneratedStory generate_from_post assembles (its clock readings,
\* generation_time, created_at and the timestamp in the id, are left out)
MakeStory(post, cmts, st, content, name) ==
    [id |-> <<post.id, st>>,
     title |-> generate_story_title(post.title, st),
     content |-> content,
     style |-> st,
     word_count |-> WordCount(content),
     source_post |->
        [id |-> post.id, title |-> post.title, author |-> post.author,
         score |-> post.score, subreddit |-> post.subreddit, url |-> post.url,
         num_comments |-> post.num_comments],
     source_comments |->
        [k \in 1..Len(cmts) |->
            [id |-> cmts[k].id, author |-> cmts[k].author,
             score |-> cmts[k].score, preview |-> Preview(cmts[k].body)]],
     ai_provider |-> name]

\* a check that lets a post with 4 comments pass
TooFewCommentsBelowFour(post) == post.num_comments < MinPostComments - 1

\* line 209 of generate_from_subreddit: the post has too few comments
TooFewComments(post) == post.num_comments < MinPostComments

\* a check that lets 2 valid comments pass
TooFewValidBelowTwo(cmts) == Len(cmts) < MinValidComments - 1

\* line 219 of generate_from_subreddit: too few comments survived
TooFewValid(cmts) == Len(cmts) < MinValidComments

(***************************************************************************)
(* Inputs                                                                  *)
(***************************************************************************)
Pad == [i \in 1..PadLen |-> "x"]

Pieces == {MarkerUpper, MarkerTitle, <<"x">>, <<" ">>, <<"\n">>, Pad}

RECURSIVE Concat(_)
Concat(ps) == IF ps = <<>> THEN <<>> ELSE Head(ps) \o Concat(Tail(ps))

Bodies == {Concat(ps) : ps \in UNION {[1..n -> Pieces] : n \in 0..MaxPieces}}

Filler(n) == [i \in 1..n |-> "x"]

\* bodies around the validity predicate's conditions
ValidityBodies ==
    {NoBody, BodyRemoved, BodyDeleted, <<>>,
     Filler(MinBodyLen - 1), Filler(MinBodyLen),
     <<" ">> \o Filler(MinBodyLen - 1) \o <<" ">>,
     <<"\n">> \o Filler(MinBodyLen) \o <<" ">>,
     <<" ">> \o BodyRemoved,
     [i \in 1..MinBodyLen |-> " "]}

ValidityAuthors == {NoAuthor, "AutoModerator", "B0tRank", "automoderator", "alice"}

ValidityScores ==
    {0 - 1, min_comment_score - 1, min_comment_score, min_comment_score + 1}

\* the comments the platform hands to one fetch: a kind and a score each
FetchKinds ==
    {[author |-> "alice", body |-> Filler(MinBodyLen)],
     [author |-> "alice", body |-> BodyRemoved],
     [author |-> "RemindMeBot", body |-> Filler(MinBodyLen)],
     [author |-> "bob", body |-> MarkerTitle \o Filler(MinBodyLen)]}

FetchScores == {min_comment_score - 1, min_comment_score, min_comment_score + 1}

\* the comment lists of length n; a comment's id is its place in the list
FetchedLists(n) ==
    {[k \in 1..n |->
         [id |-> k, author |-> kinds[k].author, body |-> kinds[k].body,
          score |-> scores[k], top_level |-> TRUE]] :
       kinds \in [1..n -> FetchKinds], scores \in [1..n -> FetchScores]}

\* ----- what the platform serves in a batch run
Cmt(id, author, text, score) ==
    [id |-> id, author |-> author, body |-> text, score |-> score,
     top_level |-> TRUE]

\* four comments, three of them valid
TreeThreeOfFour ==
    <<Cmt(1, "ann", Filler(MinBodyLen), 40),
      Cmt(2, NoAuthor, BodyDeleted, 90),
      Cmt(3, "bob", Filler(MinBodyLen), 30),
      Cmt(4, "cat", Filler(MinBodyLen), 20)>>

\* five comments, two of them valid
TreeTwoOfFive ==
    <<Cmt(1, "ann", Filler(MinBodyLen), 50),
      Cmt(2, "bob", Filler(MinBodyLen), 3),
      Cmt(3, "AutoModerator", Filler(MinBodyLen), 70),
      Cmt(4, "cat", BodyRemoved, 80),
      Cmt(5, "dan", Filler(MinBodyLen), 60)>>

\* seven comments, six of them valid, two of these with the same score
TreeSixOfSeven ==
    <<Cmt(1, "ann", Filler(MinBodyLen), 275),
      Cmt(2, "bob", Filler(MinBodyLen) \o <<" ">> \o MarkerTitle \o <<"x">>, 500),
      Cmt(3, "cat", Filler(MinBodyLen), 350),
      Cmt(4, "dan", <<" ">> \o Filler(MinBodyLen) \o <<"\n">>, 350),
      Cmt(5, "eve", Filler(MinBodyLen - 1), 900),
      Cmt(6, "fay", Filler(MinBodyLen), 12),
      Cmt(7, "gus", Filler(MinBodyLen), 10)>>

SubmissionKinds ==
    {[title |-> <<"H", "i">>, author |-> "op1", selftext |-> <<>>,
      num_comments |-> 4, tree |-> TreeThreeOfFour],
     [title |-> <<"D", "a", "y">>, author |-> "op2", selftext |-> <<>>,
      num_comments |-> 5, tree |-> TreeTwoOfFive],
     [title |-> <<"W", "h", "y", "?">>, author |-> "op3", selftext |-> <<>>,
      num_comments |-> 7, tree |-> TreeSixOfSeven],
     [title |-> <<"W", "h", "o", "?">>, author |-> NoAuthor, selftext |-> <<>>,
      num_comments |-> 7, tree |-> TreeSixOfSeven]}

\* a submission of kind k served at place n; its id is its place
Submission(kind, n) ==
    [id |-> n, title |-> kind.title, author |-> kind.author,
     selftext |-> kind.selftext, score |-> 100 - n, subreddit |-> "AskReddit",
     url |-> <<"https://redd.it/", ToString(n)>>,
     num_comments |-> kind.num_comments, tree |-> kind.tree]

SubmissionLists(n) ==
    {[k \in 1..n |-> Submission(kinds[k], k)] : kinds \in [1..n -> SubmissionKinds]}

KindWithComments(n) == CHOOSE kind \in SubmissionKinds :
    kind.num_comments = n /\ kind.author # NoAuthor

\* five posts: two with fewer than 5 comments, one with 2 valid comments
ExampleSubmissions ==
    [k \in 1..5 |->
        Submission(KindWithComments(<<7, 4, 5, 4, 7>>[k]), k)]

\* the styles a caller asks for: the vocabulary and one unknown style
RequestedStyles == DOMAIN STORY_STYLES \cup {"mystery"}

\* the raw text the remote generation API answers with
Responses == {<<" ", "O", "n", "c", "e", " ", "u", "p", "o", "n", "\n">>}

\* ----- a single-post run
CliStyles == {"comedy", "mystery"}

\* the raw texts the remote generation API answers with in a single-post
\* run: of 2 words, of no word and of 3 words
CliResponses ==
    Responses \cup {<<>>, <<"a", "\t", "b", " ", " ", "c", ".", "\n">>}

\* ----- the post titles of one _generate_story_title call
MaxTitleLen == 3

TitleAboutDay ==
    <<"T", "e", "l", "l", " ", "m", "e", " ", "a", "b", "o", "u", "t", " ",
      "y", "o", "u", "r", " ", "d", "a", "y">>

TitleBestAdvice ==
    <<"W", "h", "a", "t", "'", "s", " ", "t", "h", "e", " ", "b", "e", "s",
      "t", " ", "a", "d", "v", "i", "c", "e", " ", "y", "o", "u", "'", "v",
      "e", " ", "e", "v", "e", "r", " ", "g", "o", "t", "t", "e", "n", "?">>

Titles ==
    UNION {[1..n -> {"a", "?", " "}] : n \in 0..MaxTitleLen}
        \cup {TitleAboutDay, TitleBestAdvice}

\* ----- the submissions the platform ranks for one get_top_posts call
PostKinds ==
    {[title |-> <<"H", "i">>, author |-> a, selftext |-> t, num_comments |-> 7,
      tree |-> <<>>] :
        a \in {NoAuthor, "op"}, t \in {<<>>, BodyRemoved, BodyDeleted}}

RankedLists(n) ==
    {[k \in 1..n |-> Submission(kinds[k], k)] : kinds \in [1..n -> PostKinds]}

\* ----- a setup session
Envs ==
    [OPENAI_API_KEY : {Unset, "", "sk-1"},
     ANTHROPIC_API_KEY : {Unset, "", "sk-ant-1"},
     AWS_PROFILE : {Unset, "personal", "work"}]

\* the provider argument of AIClient(...): None, "", the tags and two others
ProviderArgs == {Unset, "", "openai", "anthropic", "bedrock", "gemini", "OpenAI"}

ProbeRemotes == {"item", "empty", "error"}

\* the prompt and the token ceiling of the test generation (cli.py:199-202)
TestPrompt == <<"Write a one-sentence story about a robot.">>
TestMaxTokens == 50

\* ----- the Config values that are validated: the three tags and one other
CheckedConfigs ==
    [reddit_client_id : {"", "id"},
     reddit_client_secret : {"", "secret"},
     ai_provider : Providers \cup {"gemini"},
     openai_api_key : {Unset, "", "sk-1"},
     anthropic_api_key : {Unset, "", "sk-ant-1"},
     aws_profile : {Unset, "personal", "work"}]

\* ----- the arguments of one build_story_prompt call
BuildStyles == RequestedStyles \cup {"", "Comedy"}

\* min_words and max_words: None, 0 and two bounds
WordBounds == {<<>>, <<0>>, <<150>>, <<800>>}

\* comment bodies around the prompt's cut; the last one is a body the
\* scraper cut at 1000 characters
BuildBodies ==
    {Filler(MinBodyLen), Filler(PromptMaxCommentLen), Filler(PromptMaxCommentLen + 1),
     clean_comment_body(Filler(CleanMaxLen + 3))}

BuildCommentLists(n) ==
    {[k \in 1..n |->
         [id |-> k, body |-> bodies[k], author |-> "ann", score |-> 100 - k,
          is_top_level |-> TRUE]] : bodies \in [1..n -> BuildBodies]}

BuildPost == ToRedditPost(Submission(KindWithComments(7), 1))

NoEnv == [OPENAI_API_KEY |-> Unset, ANTHROPIC_API_KEY |-> Unset, AWS_PROFILE |-> Unset]

NoConfig ==
    [openai_api_key |-> Unset, anthropic_api_key |-> Unset, aws_profile |-> Unset,
     ai_provider |-> ""]

NoCheckedConfig ==
    [reddit_client_id |-> "", reddit_client_secret |-> "", ai_provider |-> "",
     openai_api_key |-> Unset, anthropic_api_key |-> Unset, aws_profile |-> Unset]

NoClient == [state |-> "none", provider_name |-> "", provider |-> "", error |-> ""]

NoPrompt ==
    [system_message |-> <<>>, user_prompt |-> <<>>,
     post_data |-> [title |-> <<>>, subreddit |-> "", score |-> 0,
                    num_comments |-> 0, comment_count |-> 0],
     style |-> "", word_count |-> <<0, 0>>]

(***************************************************************************)
(* Specifications.  Each one drives one part of the program and leaves     *)
(* the variables of the other parts switched off.                          *)
(***************************************************************************)
OffClean == body = <<>> /\ cleaned = <<>> /\ recleaned = <<>> /\ cleanPc = "off"
OffValid ==
    /\ comment = [id |-> 0, author |-> NoAuthor, body |-> NoBody,
                  score |-> 0, top_level |-> TRUE]
    /\ verdict = FALSE
    /\ validPc = "off"
OffFetch == fetched = <<>> /\ limit = 0 /\ result = <<>> /\ fetchPc = "off"
OffBatch ==
    /\ provider_name = "" /\ style = "" /\ submissions = <<>> /\ posts = <<>>
    /\ idx = 0 /\ comments = <<>> /\ prompt = NoPrompt /\ story_content = <<>>
    /\ stories = <<>> /\ requests = <<>> /\ log = <<>> /\ exc = "none"
    /\ pc = "off"

OffCli == story_generated = FALSE /\ saved = <<>> /\ exit_code = 0 - 1
OffBuild ==
    /\ build_style = "" /\ build_min = <<>> /\ build_max = <<>>
    /\ build_comments = <<>> /\ built = NoPrompt /\ build_post = BuildPost
    /\ composed = <<>> /\ buildPc = "off"
OffTitle ==
    given_title = <<>> /\ title_style = "" /\ story_title = <<>> /\ titlePc = "off"
OffPosts ==
    /\ available = <<>> /\ post_limit = 0 /\ cursor = 0 /\ acc = <<>>
    /\ top_posts = <<>> /\ postsPc = "off"
OffSession ==
    /\ probe_remote = "" /\ probe_result = "unset" /\ env = NoEnv
    /\ config = NoConfig /\ provider_arg = "" /\ client = NoClient
    /\ calls = <<>> /\ setupPc = "off"
OffCheck ==
    /\ checked_config = NoCheckedConfig /\ validate_result = FALSE
    /\ constructed = NoClient /\ checkPc = "off"
OffSetup == OffSession /\ OffCheck
OffLater == OffCli /\ OffBuild /\ OffTitle /\ OffPosts /\ OffSetup

\* ----- cleaning one body, and cleaning the result again
InitClean ==
    /\ body \in Bodies
    /\ cleaned = <<>>
    /\ recleaned = <<>>
    /\ cleanPc = "init"
    /\ OffValid /\ OffFetch /\ OffBatch /\ OffLater

\* the scraper cleans the body of a retained comment
Clean ==
    /\ cleanPc = "init"
    /\ cleaned' = clean_comment_body(body)
    /\ cleanPc' = "cleaned"
    /\ UNCHANGED <<body, recleaned, validVars, fetchVars, batchVars, laterVars>>

\* the cleaned body is cleaned a second time
CleanAgain ==
    /\ cleanPc = "cleaned"
    /\ recleaned' = clean_comment_body(cleaned)
    /\ cleanPc' = "recleaned"
    /\ UNCHANGED <<body, cleaned, validVars, fetchVars, batchVars, laterVars>>

NextClean == Clean \/ CleanAgain

SpecClean == InitClean /\ [][NextClean]_vars

\* ----- the validity predicate on one comment
InitValid ==
    /\ comment \in [id : {1}, author : ValidityAuthors, body : ValidityBodies,
                    score : ValidityScores, top_level : BOOLEAN]
    /\ verdict = FALSE
    /\ validPc = "init"
    /\ OffClean /\ OffFetch /\ OffBatch /\ OffLater

CheckValid ==
    /\ validPc = "init"
    /\ verdict' = is_valid_comment(comment)
    /\ validPc' = "done"
    /\ UNCHANGED <<comment, cleanVars, fetchVars, batchVars, laterVars>>

NextValid == CheckValid

SpecValid == InitValid /\ [][NextValid]_vars

\* ----- one call of get_top_comments
InitFetch ==
    /\ fetched \in UNION {FetchedLists(n) : n \in 0..MaxFetched}
    /\ limit \in 0..MaxLimit
    /\ result = <<>>
    /\ fetchPc = "init"
    /\ OffClean /\ OffValid /\ OffBatch /\ OffLater

GetTopComments ==
    /\ fetchPc = "init"
    /\ result' = get_top_comments(fetched, limit)
    /\ fetchPc' = "done"
    /\ UNCHANGED <<fetched, limit, cleanVars, validVars, batchVars, laterVars>>

NextFetch == GetTopComments

SpecFetch == InitFetch /\ [][NextFetch]_vars

\* ----- a batch run: StoryGenerator.generate_from_subreddit
Init ==
    /\ provider_name \in Providers
    /\ style \in RequestedStyles
    /\ submissions \in
          UNION {SubmissionLists(n) : n \in 0..MaxPosts} \cup {ExampleSubmissions}
    /\ posts = <<>>
    /\ idx = 0
    /\ comments = <<>>
    /\ prompt = NoPrompt
    /\ story_content = <<>>
    /\ stories = <<>>
    /\ requests = <<>>
    /\ log = <<>>
    /\ exc = "none"
    /\ pc = "start"
    /\ OffClean /\ OffValid /\ OffFetch /\ OffLater

others == <<cleanVars, validVars, fetchVars, laterVars>>

CurrentPost == posts[idx]

\* the comment tree the platform holds for a post
TreeOf(post) == submissions[post.id].tree

LogEntry(outcome) == [post |-> CurrentPost.id, outcome |-> outcome, exc |-> exc]

\* the posts are fetched (lines 198-202)
GetTopPosts ==
    /\ pc = "start"
    /\ posts' = get_top_posts(submissions)
    /\ idx' = 1
    /\ pc' = "loop"
    /\ UNCHANGED <<provider_name, style, submissions, comments, prompt,
                   story_content, stories, requests, log, exc, others>>

\* the remote call of get_top_posts errors: nothing catches it
GetTopPostsFails ==
    /\ pc = "start"
    /\ exc' = "SourceUnavailable"
    /\ pc' = "raised"
    /\ UNCHANGED <<provider_name, style, submissions, posts, idx, comments,
                   prompt, story_content, stories, requests, log, others>>

\* the loop is over: the stories are returned (lines 231-232)
ReturnStories ==
    /\ pc = "loop"
    /\ idx > Len(posts)
    /\ pc' = "returned"
    /\ UNCHANGED <<provider_name, style, submissions, posts, idx, comments,
                   prompt, story_content, stories, requests, log, exc, others>>

\* a post with too few comments is skipped (lines 209-211)
SkipFewComments ==
    /\ pc = "loop"
    /\ idx <= Len(posts)
    /\ TooFewComments(CurrentPost)
    /\ log' = Append(log, LogEntry("few_comments"))
    /\ idx' = idx + 1
    /\ UNCHANGED <<provider_name, style, submissions, posts, comments, prompt,
                   story_content, stories, requests, exc, pc, others>>

\* the comments of the post are fetched (lines 214-217)
FetchComments ==
    /\ pc = "loop"
    /\ idx <= Len(posts)
    /\ ~TooFewComments(CurrentPost)
    /\ comments' = get_top_comments(TreeOf(CurrentPost), default_comment_limit)
    /\ pc' = "fetched"
    /\ UNCHANGED <<provider_name, style, submissions, posts, idx, prompt,
                   story_content, stories, requests, log, exc, others>>

\* a remote call of get_top_comments errors: the exception is raised into
\* the loop body's try
FetchCommentsFails ==
    /\ pc = "loop"
    /\ idx <= Len(posts)
    /\ ~TooFewComments(CurrentPost)
    /\ exc' = "SourceUnavailable"
    /\ pc' = "except"
    /\ UNCHANGED <<provider_name, style, submissions, posts, idx, comments,
                   prompt, story_content, stories, requests, log, others>>

\* a skip that fetches the comments of the same post once more
SkipFewValidFetchesAgain ==
    /\ pc = "fetched"
    /\ TooFewValid(comments)
    /\ pc' = "loop"
    /\ UNCHANGED <<provider_name, style, submissions, posts, idx, comments,
                   prompt, story_content, stories, requests, log, exc, others>>

\* a post with too few valid comments is skipped (lines 219-221)
SkipFewValid ==
    /\ pc = "fetched"
    /\ TooFewValid(comments)
    /\ log' = Append(log, LogEntry("few_valid"))
    /\ idx' = idx + 1
    /\ pc' = "loop"
    /\ UNCHANGED <<provider_name, style, submissions, posts, comments, prompt,
                   story_content, stories, requests, exc, others>>

\* generate_from_post builds the prompt (lines 97-103)
BuildPrompt ==
    /\ pc = "fetched"
    /\ ~TooFewValid(comments)
    /\ prompt' = build_story_prompt(CurrentPost, comments, style, <<>>, <<>>)
    /\ pc' = "prompted"
    /\ UNCHANGED <<provider_name, style, submissions, posts, idx, comments,
                   story_content, stories, requests, log, exc, others>>

\* the request generate_from_post has the provider send (lines 108-120)
SentRequest ==
    [post |-> CurrentPost.id,
     req |-> ProviderRequest(provider_name,
                             PromptTextFor(provider_name, prompt),
                             StoryMaxTokens)]

\* the provider answers: its text is trimmed and returned (lines 106-120)
Generate ==
    /\ pc = "prompted"
    /\ requests' = Append(requests, SentRequest)
    /\ \E text \in Responses : story_content' = strip(text)
    /\ pc' = "generated"
    /\ UNCHANGED <<provider_name, style, submissions, posts, idx, comments,
                   prompt, stories, log, exc, others>>

\* a failed generate call that is made again
GenerateFailsRetried ==
    /\ pc = "prompted"
    /\ requests' = Append(requests, SentRequest)
    /\ UNCHANGED <<provider_name, style, submissions, posts, idx, comments,
                   prompt, story_content, stories, log, exc, pc, others>>

\* the provider's call errors: the provider and generate_from_post log the
\* error and raise it again (ai_client lines 58-60, lines 122-124), which
\* takes it to the caller's except clause
GenerateFails ==
    /\ pc = "prompted"
    /\ requests' = Append(requests, SentRequest)
    /\ exc' = "GenerationFailure"
    /\ pc' = "except"
    /\ UNCHANGED <<provider_name, style, submissions, posts, idx, comments,
                   prompt, story_content, stories, log, others>>

\* a loop that puts the new story in front of the collected ones
ComposeStoryInFront ==
    /\ pc = "generated"
    /\ stories' =
          <<MakeStory(CurrentPost, comments, style, story_content, provider_name)>>
              \o stories
    /\ log' = Append(log, LogEntry("generated"))
    /\ idx' = idx + 1
    /\ pc' = "loop"
    /\ UNCHANGED <<provider_name, style, submissions, posts, comments, prompt,
                   story_content, requests, exc, others>>

\* generate_from_post assembles the story and the loop collects it
\* (lines 126-172 and 224-225)
ComposeStory ==
    /\ pc = "generated"
    /\ stories' = Append(stories,
          MakeStory(CurrentPost, comments, style, story_content, provider_name))
    /\ log' = Append(log, LogEntry("generated"))
    /\ idx' = idx + 1
    /\ pc' = "loop"
    /\ UNCHANGED <<provider_name, style, submissions, posts, comments, prompt,
                   story_content, requests, exc, others>>

\* a loop without the try: the post's failure leaves generate_from_subreddit
PropagatePostFailure ==
    /\ pc = "except"
    /\ pc' = "raised"
    /\ UNCHANGED <<provider_name, style, submissions, posts, idx, comments,
                   prompt, story_content, stories, requests, log, exc, others>>

\* an except clause that keeps a story without text for the failed post
CatchPostFailureKeepsPartial ==
    /\ pc = "except"
    /\ stories' = Append(stories,
          MakeStory(CurrentPost, comments, style, <<>>, provider_name))
    /\ log' = Append(log, LogEntry("failed"))
    /\ exc' = "none"
    /\ idx' = idx + 1
    /\ pc' = "loop"
    /\ UNCHANGED <<provider_name, style, submissions, posts, comments, prompt,
                   story_content, requests, others>>

\* the except clause of the loop: the failure is logged and the loop goes
\* on with the next post (lines 227-229)
CatchPostFailure ==
    /\ pc = "except"
    /\ log' = Append(log, LogEntry("failed"))
    /\ exc' = "none"
    /\ idx' = idx + 1
    /\ pc' = "loop"
    /\ UNCHANGED <<provider_name, style, submissions, posts, comments, prompt,
                   story_content, stories, requests, others>>

Next ==
    \/ GetTopPosts
    \/ GetTopPostsFails
    \/ ReturnStories
    \/ SkipFewComments
    \/ FetchComments
    \/ FetchCommentsFails
    \/ SkipFewValid
    \/ BuildPrompt
    \/ Generate
    \/ GenerateFails
    \/ ComposeStory
    \/ CatchPostFailure

Spec == Init /\ [][Next]_vars

\* ----- a single-post run: cli.cmd_generate
InitGenerate ==
    /\ provider_name \in Providers
    /\ style \in CliStyles
    /\ submissions \in UNION {SubmissionLists(n) : n \in 0..MaxPosts}
    /\ posts = <<>>
    /\ idx = 0
    /\ comments = <<>>
    /\ prompt = NoPrompt
    /\ story_content = <<>>
    /\ stories = <<>>
    /\ requests = <<>>
    /\ log = <<>>
    /\ exc = "none"
    /\ pc = "cli_start"
    /\ story_generated = FALSE
    /\ saved = <<>>
    /\ exit_code = 0 - 1
    /\ OffClean /\ OffValid /\ OffFetch
    /\ OffBuild /\ OffTitle /\ OffPosts /\ OffSetup

cliOthers ==
    <<cleanVars, validVars, fetchVars, buildVars, titleVars, postsVars, setupVars>>

\* the posts are fetched; with none of them the run is over (lines 46-54)
CliGetTopPosts ==
    /\ pc = "cli_start"
    /\ posts' = get_top_posts(submissions)
    /\ idx' = 1
    /\ IF posts' = <<>>
       THEN exit_code' = 1 /\ pc' = "exited"
       ELSE exit_code' = exit_code /\ pc' = "cli_loop"
    /\ UNCHANGED <<provider_name, style, submissions, comments, prompt,
                   story_content, stories, requests, log, exc, story_generated,
                   saved, cliOthers>>

\* the remote call of get_top_posts errors: nothing in cmd_generate or in
\* main catches it
CliGetTopPostsFails ==
    /\ pc = "cli_start"
    /\ exc' = "SourceUnavailable"
    /\ pc' = "crashed"
    /\ UNCHANGED <<provider_name, style, submissions, posts, idx, comments,
                   prompt, story_content, stories, requests, log,
                   story_generated, saved, exit_code, cliOthers>>

\* a post with fewer than 5 comments is skipped (lines 62-64)
CliSkipFewComments ==
    /\ pc = "cli_loop"
    /\ idx <= Len(posts)
    /\ CurrentPost.num_comments < 5
    /\ log' = Append(log, LogEntry("few_comments"))
    /\ idx' = idx + 1
    /\ UNCHANGED <<provider_name, style, submissions, posts, comments, prompt,
                   story_content, stories, requests, exc, pc, story_generated,
                   saved, exit_code, cliOthers>>

\* the comments of the post are fetched, 5 at most (line 67)
CliFetchComments ==
    /\ pc = "cli_loop"
    /\ idx <= Len(posts)
    /\ ~(CurrentPost.num_comments < 5)
    /\ comments' = get_top_comments(TreeOf(CurrentPost), 5)
    /\ pc' = "cli_fetched"
    /\ UNCHANGED <<provider_name, style, submissions, posts, idx, prompt,
                   story_content, stories, requests, log, exc, story_generated,
                   saved, exit_code, cliOthers>>

\* a remote call of get_top_comments errors: line 67 is outside the try, so
\* nothing catches it
CliFetchCommentsFails ==
    /\ pc = "cli_loop"
    /\ idx <= Len(posts)
    /\ ~(CurrentPost.num_comments < 5)
    /\ exc' = "SourceUnavailable"
    /\ pc' = "crashed"
    /\ UNCHANGED <<provider_name, style, submissions, posts, idx, comments,
                   prompt, story_content, stories, requests, log,
                   story_generated, saved, exit_code, cliOthers>>

\* a post with fewer than 3 valid comments is skipped (lines 69-71)
CliSkipFewValid ==
    /\ pc = "cli_fetched"
    /\ Len(comments) < 3
    /\ log' = Append(log, LogEntry("few_valid"))
    /\ idx' = idx + 1
    /\ pc' = "cli_loop"
    /\ UNCHANGED <<provider_name, style, submissions, posts, comments, prompt,
                   story_content, stories, requests, exc, story_generated,
                   saved, exit_code, cliOthers>>

\* generate_from_post builds the prompt (lines 76-80, story_generator.py
\* lines 97-103)
CliBuildPrompt ==
    /\ pc = "cli_fetched"
    /\ ~(Len(comments) < 3)
    /\ prompt' = build_story_prompt(CurrentPost, comments, style, <<>>, <<>>)
    /\ pc' = "cli_prompted"
    /\ UNCHANGED <<provider_name, style, submissions, posts, idx, comments,
                   story_content, stories, requests, log, exc, story_generated,
                   saved, exit_code, cliOthers>>

\* the provider answers: its text is trimmed and returned
CliGenerate ==
    /\ pc = "cli_prompted"
    /\ requests' = Append(requests, SentRequest)
    /\ \E text \in CliResponses : story_content' = strip(text)
    /\ pc' = "cli_generated"
    /\ UNCHANGED <<provider_name, style, submissions, posts, idx, comments,
                   prompt, stories, log, exc, story_generated, saved, exit_code,
                   cliOthers>>

\* the provider's call errors: the error is raised again up to the except
\* clause of cmd_generate
CliGenerateFails ==
    /\ pc = "cli_prompted"
    /\ requests' = Append(requests, SentRequest)
    /\ exc' = "GenerationFailure"
    /\ pc' = "cli_except"
    /\ UNCHANGED <<provider_name, style, submissions, posts, idx, comments,
                   prompt, story_content, stories, log, story_generated, saved,
                   exit_code, cliOthers>>

\* generate_from_post assembles the story and returns it to cmd_generate
CliComposeStory ==
    /\ pc = "cli_generated"
    /\ stories' = Append(stories,
          MakeStory(CurrentPost, comments, style, story_content, provider_name))
    /\ log' = Append(log, LogEntry("generated"))
    /\ pc' = "cli_story"
    /\ UNCHANGED <<provider_name, style, submissions, posts, idx, comments,
                   prompt, story_content, requests, exc, story_generated, saved,
                   exit_code, cliOthers>>

\* the story is displayed and saved, and the loop is left (lines 82-113)
CliSaveStory ==
    /\ pc = "cli_story"
    /\ saved' = Append(saved, stories[Len(stories)].id)
    /\ story_generated' = TRUE
    /\ pc' = "cli_break"
    /\ UNCHANGED <<provider_name, style, submissions, posts, idx, comments,
                   prompt, story_content, stories, requests, log, exc, exit_code,
                   cliOthers>>

\* printing the story or writing its files errors (a closed pipe, an
\* unwritable directory): the error is raised inside the same try
CliSaveFails ==
    /\ pc = "cli_story"
    /\ exc' = "OSError"
    /\ pc' = "cli_except"
    /\ UNCHANGED <<provider_name, style, submissions, posts, idx, comments,
                   prompt, story_content, stories, requests, log,
                   story_generated, saved, exit_code, cliOthers>>

\* the except clause of cmd_generate: the failure is logged and the loop
\* goes on with the next post (lines 115-117)
CliCatchFailure ==
    /\ pc = "cli_except"
    /\ log' = Append(log, LogEntry("failed"))
    /\ exc' = "none"
    /\ idx' = idx + 1
    /\ pc' = "cli_loop"
    /\ UNCHANGED <<provider_name, style, submissions, posts, comments, prompt,
                   story_content, stories, requests, story_generated, saved,
                   exit_code, cliOthers>>

\* the loop is over, by break or by exhaustion: the exit code is returned
\* (lines 119-123)
CliReturn ==
    /\ \/ pc = "cli_break"
       \/ pc = "cli_loop" /\ idx > Len(posts)
    /\ exit_code' = IF ~story_generated THEN 1 ELSE 0
    /\ pc' = "exited"
    /\ UNCHANGED <<provider_name, style, submissions, posts, idx, comments,
                   prompt, story_content, stories, requests, log, exc,
                   story_generated, saved, cliOthers>>

NextGenerate ==
    \/ CliGetTopPosts
    \/ CliGetTopPostsFails
    \/ CliSkipFewComments
    \/ CliFetchComments
    \/ CliFetchCommentsFails
    \/ CliSkipFewValid
    \/ CliBuildPrompt
    \/ CliGenerate
    \/ CliGenerateFails
    \/ CliComposeStory
    \/ CliSaveStory
    \/ CliSaveFails
    \/ CliCatchFailure
    \/ CliReturn

SpecGenerate == InitGenerate /\ [][NextGenerate]_vars

\* ----- a setup session (cli.cmd_test): the scraper is probed, an AIClient
\* is constructed, probed and asked for a test generation
InitSetup ==
    /\ probe_remote \in ProbeRemotes
    /\ probe_result = "unset"
    /\ env \in Envs
    /\ config = from_env(env)
    /\ provider_arg \in ProviderArgs
    /\ client = NoClient
    /\ calls = <<>>
    /\ setupPc = "probe"
    /\ OffClean /\ OffValid /\ OffFetch /\ OffBatch
    /\ OffCli /\ OffBuild /\ OffTitle /\ OffPosts /\ OffCheck

setupOthers == <<coreVars, cliVars, buildVars, titleVars, postsVars, checkVars>>

\* the environment the config was read from
InitialEnv ==
    [OPENAI_API_KEY |-> config.openai_api_key,
     ANTHROPIC_API_KEY |-> config.anthropic_api_key,
     AWS_PROFILE |-> config.aws_profile]

\* the scraper's probe; a falsy result ends the session (cli.py:178-187)
ProbeReddit ==
    /\ setupPc = "probe"
    /\ probe_result' = test_connection(probe_remote)
    /\ setupPc' = IF probe_result' = "True" THEN "sample" ELSE "failed"
    /\ UNCHANGED <<probe_remote, env, config, provider_arg, client, calls,
                   setupOthers>>

\* the sample post is fetched (cli.py:182-184)
FetchSample ==
    /\ setupPc = "sample"
    /\ setupPc' = "construct"
    /\ UNCHANGED <<probe_remote, probe_result, env, config, provider_arg, client,
                   calls, setupOthers>>

\* the fetch of the sample post errors: nothing catches it
FetchSampleFails ==
    /\ setupPc = "sample"
    /\ setupPc' = "crashed"
    /\ UNCHANGED <<probe_remote, probe_result, env, config, provider_arg, client,
                   calls, setupOthers>>

\* AIClient(provider) (ai_client.py:190-219)
ConstructClient ==
    /\ setupPc = "construct"
    /\ client' = AIClient(provider_arg, config)
    /\ setupPc' = IF client'.state = "built" THEN "ready" ELSE "crashed"
    /\ UNCHANGED <<probe_remote, probe_result, env, config, provider_arg, calls,
                   setupOthers>>

\* the provider's own constructor raises (a package that is not installed,
\* a profile the AWS session does not know)
ProviderInitFails ==
    /\ setupPc = "construct"
    /\ AIClient(provider_arg, config).state = "built"
    /\ client' = [AIClient(provider_arg, config) EXCEPT
                     !.state = "failed", !.provider = "", !.error = "ProviderInit"]
    /\ setupPc' = "crashed"
    /\ UNCHANGED <<probe_remote, probe_result, env, config, provider_arg, calls,
                   setupOthers>>

\* AIClient.test_connection: the provider's probe answers true or false
\* (cli.py:194 and 205-207)
ProbeProvider ==
    /\ setupPc = "ready"
    /\ \E ok \in BOOLEAN :
          /\ calls' = Append(calls, [op |-> "test_connection",
                                     provider |-> provider_of_call(client, env),
                                     ok |-> ok])
          /\ setupPc' = IF ok THEN "probed" ELSE "failed"
    /\ UNCHANGED <<probe_remote, probe_result, env, config, provider_arg, client,
                   setupOthers>>

\* AIClient.generate_story for the test prompt, or none in a dry run
\* (cli.py:198-203)
GenerateTest ==
    /\ setupPc = "probed"
    /\ \E dry_run \in BOOLEAN :
          calls' = IF dry_run THEN calls
                   ELSE Append(calls,
                          [op |-> "generate_story",
                           provider |-> provider_of_call(client, env), ok |-> TRUE,
                           req |-> ProviderRequest(client.provider_name, TestPrompt,
                                                   TestMaxTokens)])
    /\ setupPc' = "done"
    /\ UNCHANGED <<probe_remote, probe_result, env, config, provider_arg, client,
                   setupOthers>>

\* the test generation errors: the provider raises the error again and
\* nothing in cmd_test catches it
GenerateTestFails ==
    /\ setupPc = "probed"
    /\ calls' = Append(calls,
          [op |-> "generate_story", provider |-> provider_of_call(client, env),
           ok |-> FALSE,
           req |-> ProviderRequest(client.provider_name, TestPrompt, TestMaxTokens)])
    /\ setupPc' = "crashed"
    /\ UNCHANGED <<probe_remote, probe_result, env, config, provider_arg, client,
                   setupOthers>>

\* a later call on the same client, answered or failing
\* (AIClient.generate_story, AIClient.test_connection)
ClientCall ==
    /\ setupPc = "done"
    /\ Len(calls) < MaxCalls
    /\ \E op \in {"generate_story", "test_connection"}, ok \in BOOLEAN :
          calls' = Append(calls,
              [op |-> op, provider |-> provider_of_call(client, env), ok |-> ok])
    /\ UNCHANGED <<probe_remote, probe_result, env, config, provider_arg, client,
                   setupPc, setupOthers>>

\* the environment changes once the client is built; the config was read
\* when the module was imported (config.py:122) and is not read again
EnvChanges ==
    /\ setupPc \in {"ready", "probed", "done"}
    /\ env = InitialEnv
    /\ \E e \in Envs : e # env /\ env' = e
    /\ UNCHANGED <<probe_remote, probe_result, config, provider_arg, client,
                   calls, setupPc, setupOthers>>

NextSetup ==
    \/ ProbeReddit
    \/ FetchSample
    \/ FetchSampleFails
    \/ ConstructClient
    \/ ProviderInitFails
    \/ ProbeProvider
    \/ GenerateTest
    \/ GenerateTestFails
    \/ ClientCall
    \/ EnvChanges

SpecSetup == InitSetup /\ [][NextSetup]_vars

\* ----- one call of RedditScraper.get_top_posts
InitPosts ==
    /\ available \in UNION {RankedLists(n) : n \in 0..MaxPosts}
    /\ post_limit \in 1..MaxPosts
    /\ cursor = 0
    /\ acc = <<>>
    /\ top_posts = <<>>
    /\ postsPc = "iter"
    /\ OffClean /\ OffValid /\ OffFetch /\ OffBatch
    /\ OffCli /\ OffBuild /\ OffTitle /\ OffSetup

postsOthers == <<coreVars, cliVars, buildVars, titleVars, setupVars>>

\* what subreddit.top(limit=limit) serves
Served == SliceTo(available, post_limit)

\* one turn of the loop: the next submission is skipped or appended
\* (lines 91-107)
TakeSubmission ==
    /\ postsPc = "iter"
    /\ cursor < Len(Served)
    /\ acc' = IF SkippedSubmission(Served[cursor + 1]) THEN acc
              ELSE Append(acc, ToRedditPost(Served[cursor + 1]))
    /\ cursor' = cursor + 1
    /\ UNCHANGED <<available, post_limit, top_posts, postsPc, postsOthers>>

\* the listing errors while it is read: the error is logged and raised
\* again, and the caller gets no list (lines 112-114)
ListingFails ==
    /\ postsPc = "iter"
    /\ postsPc' = "raised"
    /\ UNCHANGED <<available, post_limit, cursor, acc, top_posts, postsOthers>>

\* the listing is exhausted: the list is returned (lines 109-110)
ReturnPosts ==
    /\ postsPc = "iter"
    /\ cursor = Len(Served)
    /\ top_posts' = acc
    /\ postsPc' = "returned"
    /\ UNCHANGED <<available, post_limit, cursor, acc, postsOthers>>

NextPosts == TakeSubmission \/ ListingFails \/ ReturnPosts

SpecPosts == InitPosts /\ [][NextPosts]_vars

\* ----- one call of StoryGenerator._generate_story_title
InitTitle ==
    /\ given_title \in Titles
    /\ title_style \in RequestedStyles
    /\ story_title = <<>>
    /\ titlePc = "init"
    /\ OffClean /\ OffValid /\ OffFetch /\ OffBatch
    /\ OffCli /\ OffBuild /\ OffPosts /\ OffSetup

GenerateStoryTitle ==
    /\ titlePc = "init"
    /\ story_title' = generate_story_title(given_title, title_style)
    /\ titlePc' = "done"
    /\ UNCHANGED <<given_title, title_style, coreVars, cliVars, buildVars,
                   postsVars, setupVars>>

NextTitle == GenerateStoryTitle

SpecTitle == InitTitle /\ [][NextTitle]_vars

\* ----- a Config is validated, then an AIClient is constructed from it
InitCheck ==
    /\ checked_config \in CheckedConfigs
    /\ validate_result = FALSE
    /\ constructed = NoClient
    /\ checkPc = "init"
    /\ OffClean /\ OffValid /\ OffFetch /\ OffBatch
    /\ OffCli /\ OffBuild /\ OffTitle /\ OffPosts /\ OffSession

checkOthers == <<coreVars, cliVars, buildVars, titleVars, postsVars, sessionVars>>

\* Config.validate (config.py lines 88-112)
Validate ==
    /\ checkPc = "init"
    /\ validate_result' = validate(checked_config)
    /\ checkPc' = "validated"
    /\ UNCHANGED <<checked_config, constructed, checkOthers>>

\* AIClient() with the Config as the global config (ai_client.py lines
\* 190-219)
ConstructFromChecked ==
    /\ checkPc = "validated"
    /\ constructed' = AIClient(Unset, checked_config)
    /\ checkPc' = "constructed"
    /\ UNCHANGED <<checked_config, validate_result, checkOthers>>

NextCheck == Validate \/ ConstructFromChecked

SpecCheck == InitCheck /\ [][NextCheck]_vars

\* ----- a run in either mode: a batch run or a single-post run
InitEitherMode == Init \/ InitGenerate

NextEitherMode == Next \/ NextGenerate

SpecEitherMode == InitEitherMode /\ [][NextEitherMode]_vars

\* ----- one call of PromptBuilder.build_story_prompt
InitBuild ==
    /\ build_style \in BuildStyles
    /\ build_min \in WordBounds
    /\ build_max \in WordBounds
    /\ build_comments \in UNION {BuildCommentLists(n) : n \in 0..MaxBuildComments}
    /\ build_post = BuildPost
    /\ built = NoPrompt
    /\ composed = <<>>
    /\ buildPc = "init"
    /\ OffClean /\ OffValid /\ OffFetch /\ OffBatch
    /\ OffCli /\ OffTitle /\ OffPosts /\ OffSetup

buildOthers == <<coreVars, cliVars, titleVars, postsVars, setupVars>>

\* a build that cuts the long bodies in the comments it was given
BuildStoryPromptCutsInPlace ==
    /\ buildPc = "init"
    /\ built' = build_story_prompt(build_post, build_comments, build_style,
                                   build_min, build_max)
    /\ build_comments' =
          [k \in 1..Len(build_comments) |->
              [build_comments[k] EXCEPT
                  !.body = IF Len(@) > PromptMaxCommentLen
                           THEN SubSeq(@, 1, PromptMaxCommentLen) \o Ellipsis
                           ELSE @]]
    /\ buildPc' = "done"
    /\ UNCHANGED <<build_style, build_min, build_max, build_post, composed,
                   buildOthers>>

BuildStoryPrompt ==
    /\ buildPc = "init"
    /\ built' = build_story_prompt(build_post, build_comments, build_style,
                                   build_min, build_max)
    /\ buildPc' = "done"
    /\ UNCHANGED <<build_style, build_min, build_max, build_comments, build_post,
                   composed, buildOthers>>

\* the rest of generate_from_post after the prompt: the provider answers
\* and the story is assembled (story_generator.py lines 105-172)
ComposeFromPrompt ==
    /\ buildPc = "done"
    /\ \E name \in Providers, text \in Responses :
          composed' = MakeStory(build_post, build_comments, build_style,
                                strip(text), name)
    /\ buildPc' = "composed"
    /\ UNCHANGED <<build_style, build_min, build_max, build_comments, build_post,
                   built, buildOthers>>

\* the provider's call errors: generate_from_post raises
\* (story_generator.py lines 122-124)
ComposeFails ==
    /\ buildPc = "done"
    /\ buildPc' = "failed"
    /\ UNCHANGED <<build_style, build_min, build_max, build_comments, build_post,
                   built, composed, buildOthers>>

NextBuild == BuildStoryPrompt \/ ComposeFromPrompt \/ ComposeFails

SpecBuild == InitBuild /\ [][NextBuild]_vars

(***************************************************************************)
(* Claims about the story composer                                         *)
(***************************************************************************)
StyleVocabulary ==
    {"engaging", "comedy", "drama", "documentary", "wholesome", "thriller"}

\* C4: the style of every GeneratedStory is a member of the style
\* vocabulary, whatever style was asked for
StoryStyleInVocabulary ==
    \A k \in 1..Len(stories) : stories[k].style \in StyleVocabulary

\* the ids of the posts whose attempt the loop logged as failed
FailedIds == {log[k].post : k \in {n \in 1..Len(log) : log[n].outcome = "failed"}}

\* a post with at least 5 comments, at least 3 valid comments and no failure
EligiblePost(post) ==
    /\ post.num_comments >= 5
    /\ Len(ValidComments(TreeOf(post))) >= 3
    /\ post.id \notin FailedIds

SourceIds(ss) == [k \in 1..Len(ss) |-> ss[k].source_post.id]

PostIds(ps) == [k \in 1..Len(ps) |-> ps[k].id]

\* C5: the batch returns one story for each fetched post that has at least
\* 5 comments, at least 3 valid comments and no fetch or generation
\* failure, and no story for any other post
StoriesForEligiblePosts ==
    pc = "returned" => SourceIds(stories) = PostIds(SelectSeq(posts, EligiblePost))

\* the batch over the five example posts returned 2 stories, nothing failed
ExampleBatchReturnedTwo ==
    /\ pc = "returned"
    /\ submissions = ExampleSubmissions
    /\ FailedIds = {}
    /\ Len(stories) = 2

IsPrefix(s, t) == Len(s) <= Len(t) /\ SubSeq(t, 1, Len(s)) = s

\* C6: a failure while one post is processed never aborts the batch: it is
\* caught and the loop goes on with the next post, the stories collected so
\* far are kept, every fetched post has been processed when the batch
\* returns, and the batch raises only when the posts could not be fetched
BatchNeverAborts ==
    /\ [][pc = "except" =>
            pc' = "loop" /\ idx' = idx + 1 /\ stories' = stories]_vars
    /\ [][IsPrefix(stories, stories')]_vars
    /\ [](pc = "returned" =>
            \A n \in 1..Len(posts) :
                Cardinality({k \in 1..Len(log) : log[k].post = posts[n].id}) = 1)
    /\ [](pc = "raised" => posts = <<>> /\ log = <<>>)

\* the batch returned a story made before and a story made after a failure
StoryAfterFailure ==
    /\ pc = "returned"
    /\ \E a, b, c \in 1..Len(log) :
          /\ a < b /\ b < c
          /\ log[a].outcome = "generated"
          /\ log[b].outcome = "failed"
          /\ log[c].outcome = "generated"
    /\ Len(stories) = 2

RequestsFor(id) == {k \in 1..Len(requests) : requests[k].post = id}

\* C7: a failed generate call reaches the caller of generate_from_post as a
\* generation failure, leaves no story for the post, and is neither made
\* again nor sent to another provider: there is at most one generate call
\* for a post, made to the configured provider
GenerationFailurePropagates ==
    /\ pc = "except" /\ exc = "GenerationFailure" =>
          /\ Cardinality(RequestsFor(CurrentPost.id)) = 1
          /\ \A k \in 1..Len(stories) : stories[k].source_post.id # CurrentPost.id
    /\ \A n \in 1..Len(posts) : Cardinality(RequestsFor(posts[n].id)) <= 1
    /\ \A k \in 1..Len(requests) : requests[k].req.provider = provider_name
    /\ \A k \in 1..Len(log) :
          log[k].outcome = "failed" /\ log[k].exc = "GenerationFailure" =>
              \A n \in 1..Len(stories) : stories[n].source_post.id # log[k].post

\* a generation failure is in flight in the caller of generate_from_post
GenerationFailureInFlight ==
    /\ pc = "except"
    /\ exc = "GenerationFailure"
    /\ Len(stories) > 0

LastRequest == requests[Len(requests)].req

\* C8: the provider is sent the prompt's system instruction and its user
\* instruction: in separate system and user messages by the chat-style
\* provider, as one text (system instruction, blank line, user instruction)
\* by the other two
BothInstructionsDelivered ==
    pc = "generated" =>
        IF provider_name = "openai"
        THEN LastRequest.messages =
                <<[role |-> "system", content |-> prompt.system_message],
                  [role |-> "user", content |-> prompt.user_prompt]>>
        ELSE LastRequest.messages =
                <<[role |-> "user",
                   content |-> prompt.system_message \o <<"\n\n">>
                                  \o prompt.user_prompt]>>

(***************************************************************************)
(* Claims about the content source adapter                                 *)
(***************************************************************************)
\* C1: the validity predicate returns true exactly when the author is
\* present, the body is none of the removed sentinel, the deleted sentinel
\* and empty/absent, the author is no known bot, the score is at least the
\* configured minimum and the trimmed body has at least 20 characters
ValidIffAllConditions ==
    validPc = "done" =>
        (verdict <=>
            /\ comment.author # NoAuthor
            /\ comment.body \notin {BodyRemoved, BodyDeleted, NoBody, <<>>}
            /\ comment.author \notin BOT_ACCOUNTS
            /\ comment.score >= min_comment_score
            /\ Len(strip(comment.body)) >= MinBodyLen)

\* a comment at exactly the minimum score was judged valid
ValidAtMinimumScore ==
    validPc = "done" /\ verdict /\ comment.score = min_comment_score

\* the scores 500, 275, 350 fetched in this order
ExampleFetched ==
    [k \in 1..3 |->
        [id |-> k, author |-> "alice", body |-> Filler(MinBodyLen),
         score |-> <<500, 275, 350>>[k], top_level |-> TRUE]]

Scores(cs) == [k \in 1..Len(cs) |-> cs[k].score]

\* C2: the returned comments are in non-increasing order of score, two
\* returned comments of equal score keep their fetch order, and the fetched
\* scores 500, 275, 350 come back as 500, 350, 275
SortedByScoreStable ==
    /\ fetchPc = "done" =>
          \A a, b \in 1..Len(result) :
              a < b =>
                  /\ result[a].score >= result[b].score
                  /\ result[a].score = result[b].score => result[a].id < result[b].id
    /\ Scores(get_top_comments(ExampleFetched, 3)) = <<500, 350, 275>>

\* a fetch returned a later comment first and kept a tie in fetch order
ReorderedWithTie ==
    /\ fetchPc = "done"
    /\ Len(result) = 3
    /\ result[1].id > result[2].id
    /\ result[1].score > result[2].score
    /\ result[2].score = result[3].score

\* the places of the fetched comments that pass the validity predicate
ValidPlaces == {k \in 1..Len(fetched) : is_valid_comment(fetched[k])}

ReturnedIds == {result[a].id : a \in 1..Len(result)}

\* C3: the fetch returns min(limit, V) distinct comments, each of them
\* valid, and no valid comment left out has a score above a returned one
TopValidUpToLimit ==
    fetchPc = "done" =>
        /\ Len(result) =
              IF limit < Cardinality(ValidPlaces) THEN limit
              ELSE Cardinality(ValidPlaces)
        /\ Cardinality(ReturnedIds) = Len(result)
        /\ ReturnedIds \subseteq ValidPlaces
        /\ \A k \in ValidPlaces \ ReturnedIds :
              \A a \in 1..Len(result) : fetched[k].score <= result[a].score

\* a fetch left out a valid comment and an invalid one
TruncatedFetch ==
    /\ fetchPc = "done"
    /\ Len(result) > 0
    /\ limit < Cardinality(ValidPlaces)
    /\ Cardinality(ValidPlaces) < Len(fetched)

\* C9: cleaning is idempotent, and a cleaned body holds no edit marker
CleanIdempotent ==
    /\ cleanPc = "recleaned" => recleaned = cleaned
    /\ cleanPc \in {"cleaned", "recleaned"} =>
          ~Contains(cleaned, MarkerUpper) /\ ~Contains(cleaned, MarkerTitle)

\* a body longer than 1000 characters was cleaned twice
TruncatedCleanedTwice ==
    /\ cleanPc = "recleaned"
    /\ Len(body) > CleanMaxLen
    /\ Len(cleaned) = CleanMaxLen + Len(Ellipsis)

\* the text before the first occurrence of either edit marker
BeforeFirstMarker(t) ==
    LET occ == Occurrences(t, MarkerUpper) \cup Occurrences(t, MarkerTitle)
    IN  IF occ = {} THEN t ELSE SubSeq(t, 1, Min(occ) - 1)

NotBlank(l) == strip(l) # <<>>

\* the first 1000 characters and the ellipsis for a longer text
CutWithEllipsis(t) ==
    IF Len(t) <= CleanMaxLen THEN t
    ELSE [k \in 1..(CleanMaxLen + 3) |-> IF k <= CleanMaxLen THEN t[k] ELSE "."]

\* the transform as stated: blank lines dropped, the other lines left as
\* they are
StatedClean(b) ==
    CutWithEllipsis(
        JoinLines(SelectSeq(SplitLines(BeforeFirstMarker(strip(b))), NotBlank)))

\* the transform with every line trimmed as well
StatedCleanLinesTrimmed(b) ==
    LET lines == SplitLines(BeforeFirstMarker(strip(b)))
        trimmed == [k \in 1..Len(lines) |-> strip(lines[k])]
    IN  CutWithEllipsis(JoinLines(SelectSeq(trimmed, NotBlank)))

\* C10 (as stated): the cleaned body is the trimmed text before the first
\* edit marker, without its blank lines, cut to 1000 characters plus the
\* ellipsis when longer
CleanAsStated ==
    cleanPc \in {"cleaned", "recleaned"} => cleaned = StatedClean(body)

\* C10 (amended): as stated, and every remaining line is trimmed too
CleanAsStatedLinesTrimmed ==
    cleanPc \in {"cleaned", "recleaned"} => cleaned = StatedCleanLinesTrimmed(body)

\* a body with an edit marker was cut to 1000 characters
MarkerAndTruncation ==
    /\ cleanPc = "cleaned"
    /\ Contains(body, MarkerTitle)
    /\ Len(cleaned) = CleanMaxLen + Len(Ellipsis)


(***************************************************************************)
(* Claims about the prompt assembler                                       *)
(***************************************************************************)
\* C11: build_story_prompt called with a style outside the vocabulary
\* returns a prompt whose style is "engaging" and whose system and user
\* instructions are those of the "engaging" style; called with a style of
\* the vocabulary it returns a prompt with that style
UnknownStyleFallsBack ==
    buildPc = "done" =>
        IF build_style \in StyleVocabulary
        THEN built.style = build_style
        ELSE /\ built.style = "engaging"
             /\ built.system_message = build_system_message("engaging")
             /\ built.user_prompt =
                    build_user_prompt(build_post, build_comments, "engaging",
                                      built.word_count[1], built.word_count[2])

BuiltForUnknownStyle ==
    /\ buildPc = "done"
    /\ build_style = "mystery"
    /\ built.style = "engaging"
    /\ built.system_message[2] = STORY_STYLES["engaging"].prompt_addon

\* the bound a caller's argument stands for: the value when one is given,
\* the configured bound when none is
StatedBound(opt, configured) == IF opt = <<>> THEN configured ELSE opt[1]

\* C17: the word bound of the prompt is the caller's min_words and
\* max_words whenever the caller gives them, 0 included, and the configured
\* bound (300 and 500) only where the caller gave none
WordBoundsAsGiven ==
    buildPc = "done" =>
        built.word_count = <<StatedBound(build_min, story_min_words),
                             StatedBound(build_max, story_max_words)>>

\* the user prompt of the same call with no comments, cut where the comment
\* lines go: 5 pieces and the post title come before the closing quote
PromptWithoutComments ==
    build_story_prompt(build_post, <<>>, build_style, build_min, build_max).user_prompt

CommentsAt == 5 + Len(build_post.title) + 1

BeforeComments == SubSeq(PromptWithoutComments, 1, CommentsAt)

AfterComments ==
    SubSeq(PromptWithoutComments, CommentsAt + 1, Len(PromptWithoutComments))

\* the k-th entry of the list as stated: its number, and the body or the
\* first 500 characters of it and the ellipsis
StatedEntry(k) ==
    LET text == build_comments[k].body
    IN  <<"\n", ToString(k), ". ">>
        \o (IF Len(text) <= 500 THEN text
            ELSE [n \in 1..500 |-> text[n]] \o <<".", ".", ".">>)
        \o <<"\n">>

\* C18: in the user prompt the comments are a list numbered 1..n in the
\* order given, and a body longer than 500 characters is shown as its first
\* 500 characters and the ellipsis, a body of at most 500 characters
\* unchanged, each comment on its own
CommentsEnumeratedAndCut ==
    buildPc = "done" =>
        built.user_prompt =
            BeforeComments
            \o Concat([k \in 1..Len(build_comments) |-> StatedEntry(k)])
            \o AfterComments

\* a body of 500 characters and a body the scraper cut at 1000 characters,
\* the second one cut again
TwoCommentsOneCut ==
    /\ buildPc = "done"
    /\ Len(build_comments) = 2
    /\ Len(build_comments[1].body) = 500
    /\ Len(build_comments[2].body) = 1003
    /\ Len(built.user_prompt) =
          Len(PromptWithoutComments) + (4 + 500) + (4 + 503)

(***************************************************************************)
(* Claims about a single-post run                                          *)
(***************************************************************************)
\* the posts a single-post run passed over, and the posts that yielded a story
PassedOver == {log[k].post : k \in {n \in 1..Len(log) : log[n].outcome # "generated"}}

Yielded == {stories[k].source_post.id : k \in 1..Len(stories)}

\* C12: a single-post run tries the posts in ranked order and passes over a
\* post with fewer than 5 comments, with fewer than 3 valid comments or
\* whose generation fails, until one post yields a story or there is no
\* post left; it returns 0 if and only if some post yielded a story, and 1
\* when no post was found or every post was passed over
ExitZeroIffStoryYielded ==
    /\ pc = "exited" => (exit_code = 0 <=> Yielded # {})
    /\ pc = "exited" /\ Yielded = {} =>
          exit_code = 1 /\ PassedOver = {posts[k].id : k \in 1..Len(posts)}
    /\ Cardinality(Yielded) <= 1
    /\ Yielded # {} => pc \in {"cli_story", "cli_break", "exited"}

(***************************************************************************)
(* Claims about the setup: the scraper's probe and the client              *)
(***************************************************************************)
\* the tag a construction selects, and whether the config holds what the
\* selected variant requires
SelectedTag ==
    IF provider_arg \in {Unset, ""} THEN config.ai_provider ELSE provider_arg

CredentialMissing ==
    \/ SelectedTag = "openai" /\ config.openai_api_key \in {Unset, ""}
    \/ SelectedTag = "anthropic" /\ config.anthropic_api_key \in {Unset, ""}
    \/ SelectedTag = "bedrock" /\ config.aws_profile \in {Unset, ""}

\* C13: constructing an AIClient for a variant whose credential is missing,
\* or for an unrecognized tag, fails at construction with a configuration
\* error, and no probe or generate call is ever made on a client that lacks
\* its credential
MissingCredentialFailsConstruction ==
    /\ client.state # "none" /\ (CredentialMissing \/ SelectedTag \notin Providers) =>
          client.state = "failed" /\ client.error = "ValueError"
    /\ calls # <<>> =>
          client.state = "built" /\ ~CredentialMissing /\ SelectedTag \in Providers

ProfileMissingAtConstruction ==
    /\ provider_arg = "bedrock"
    /\ config.aws_profile = Unset
    /\ client.state = "failed"
    /\ setupPc = "crashed"
    /\ calls = <<>>

EligibleSubmission(sub) == sub.author # NoAuthor /\ sub.selftext # BodyRemoved

\* C15: get_top_posts returns, in the platform's order, exactly the fetched
\* submissions whose author is present and whose body is not the removed
\* sentinel, at most `limit` of them and none when no submission is
\* eligible; when the remote call errors it raises and returns no list
EligiblePostsInOrder ==
    /\ postsPc = "returned" =>
          /\ PostIds(top_posts) = PostIds(SelectSeq(Served, EligibleSubmission))
          /\ \A k \in 1..Len(top_posts) :
                \E n \in 1..Len(Served) : top_posts[k] = ToRedditPost(Served[n])
          /\ Len(top_posts) <= post_limit
          /\ top_posts = get_top_posts(Served)
    /\ postsPc = "raised" => top_posts = <<>>

RemovedPostLeftOut ==
    /\ postsPc = "returned"
    /\ Len(available) = 3 /\ post_limit = 2
    /\ available[1].author = "op" /\ available[1].selftext = BodyRemoved
    /\ available[2].author = "op" /\ available[2].selftext = BodyDeleted
    /\ PostIds(top_posts) = <<2>>

(***************************************************************************)
(* Claims about the derived title                                          *)
(***************************************************************************)
\* the characters of the prefixes and of the two separators
Spell ==
    "The Hilarious Tale of" :>
        <<"T", "h", "e", " ", "H", "i", "l", "a", "r", "i", "o", "u", "s",
          " ", "T", "a", "l", "e", " ", "o", "f">>
    @@ "The Dramatic Story of" :>
        <<"T", "h", "e", " ", "D", "r", "a", "m", "a", "t", "i", "c", " ",
          "S", "t", "o", "r", "y", " ", "o", "f">>
    @@ "The True Account of" :>
        <<"T", "h", "e", " ", "T", "r", "u", "e", " ", "A", "c", "c", "o",
          "u", "n", "t", " ", "o", "f">>
    @@ "The Heartwarming Story of" :>
        <<"T", "h", "e", " ", "H", "e", "a", "r", "t", "w", "a", "r", "m",
          "i", "n", "g", " ", "S", "t", "o", "r", "y", " ", "o", "f">>
    @@ "The Suspenseful Tale of" :>
        <<"T", "h", "e", " ", "S", "u", "s", "p", "e", "n", "s", "e", "f",
          "u", "l", " ", "T", "a", "l", "e", " ", "o", "f">>
    @@ "The Story of" :>
        <<"T", "h", "e", " ", "S", "t", "o", "r", "y", " ", "o", "f">>
    @@ " " :>
        <<" ">>
    @@ ": " :>
        <<":", " ">>

\* the characters of a derived title: of its prefix, of its separator and
\* the rest
Spelled(t) == Spell[t[1]] \o Spell[t[2]] \o SubSeq(t, 3, Len(t))

\* the prefix of each style as stated; a style outside the vocabulary gets
\* the prefix of "engaging"
StatedPrefix(st) ==
    CASE st = "comedy" -> "The Hilarious Tale of"
      [] st = "drama" -> "The Dramatic Story of"
      [] st = "documentary" -> "The True Account of"
      [] st = "wholesome" -> "The Heartwarming Story of"
      [] st = "thriller" -> "The Suspenseful Tale of"
      [] OTHER -> "The Story of"

StoryOfAboutDay ==
    <<"T", "h", "e", " ", "S", "t", "o", "r", "y", " ", "o", "f", ":", " ",
      "T", "e", "l", "l", " ", "m", "e", " ", "a", "b", "o", "u", "t", " ",
      "y", "o", "u", "r", " ", "d", "a", "y">>

HilariousTaleOfBestAdvice ==
    <<"T", "h", "e", " ", "H", "i", "l", "a", "r", "i", "o", "u", "s", " ",
      "T", "a", "l", "e", " ", "o", "f", " ", "W", "h", "a", "t", "'", "s",
      " ", "t", "h", "e", " ", "b", "e", "s", "t", " ", "a", "d", "v", "i",
      "c", "e", " ", "y", "o", "u", "'", "v", "e", " ", "e", "v", "e", "r",
      " ", "g", "o", "t", "t", "e", "n">>

\* C16: the derived title of a post title t and a style s is prefix(s), a
\* space and t without its last character when t ends with "?", and
\* prefix(s), ": " and t otherwise; ("Tell me about your day", engaging)
\* gives "The Story of: Tell me about your day"
DerivedTitleAsStated ==
    titlePc = "done" =>
        /\ IF given_title # <<>> /\ given_title[Len(given_title)] = "?"
           THEN Spelled(story_title) \o <<"?">> =
                    Spell[StatedPrefix(title_style)] \o <<" ">> \o given_title
           ELSE Spelled(story_title) =
                    Spell[StatedPrefix(title_style)] \o <<":", " ">> \o given_title
        /\ given_title = TitleAboutDay /\ title_style = "engaging" =>
              Spelled(story_title) = StoryOfAboutDay
        /\ given_title = TitleBestAdvice /\ title_style = "comedy" =>
              Spelled(story_title) = HilariousTaleOfBestAdvice

QuestionMarkStripped ==
    /\ titlePc = "done"
    /\ given_title = TitleBestAdvice
    /\ title_style = "comedy"
    /\ Spelled(story_title) = HilariousTaleOfBestAdvice

(***************************************************************************)
(* Claims about the composed story and the requests of a single-post run   *)
(***************************************************************************)
\* the number of whitespace-separated words of a text: the places where a
\* word ends
WordsOf(text) ==
    Cardinality({n \in 1..Len(text) :
        /\ text[n] \notin {" ", "\t", "\n", "\r"}
        /\ (n = Len(text) \/ text[n + 1] \in {" ", "\t", "\n", "\r"})})

\* C19: the word_count of every GeneratedStory is the number of
\* whitespace-separated words of the story body the provider returned,
\* counted on the generated text and never taken from the requested bound
WordCountIsWordsOfBody ==
    /\ \A k \in 1..Len(stories) : stories[k].word_count = WordsOf(stories[k].content)
    /\ pc = "cli_story" =>
          /\ stories[Len(stories)].content = story_content
          /\ prompt.word_count = <<story_min_words, story_max_words>>

ThreeWordStory ==
    /\ pc = "cli_story"
    /\ stories[Len(stories)].content = <<"a", "\t", "b", " ", " ", "c", ".">>
    /\ stories[Len(stories)].word_count = 3

\* C20: every generate request of each of the three providers carries
\* temperature 0.8 and top_p 0.9, and the max_tokens its caller passed
SamplingParametersUniform ==
    \A k \in 1..Len(requests) :
        /\ requests[k].req.temperature = "0.8"
        /\ requests[k].req.top_p = "0.9"
        /\ requests[k].req.max_tokens = StoryMaxTokens

(***************************************************************************)
(* Claims about the course of a batch run                                  *)
(***************************************************************************)
\* the stages of a post's attempt, by the place of the loop: the post is in
\* hand ("loop"), its comments are fetched and filtered ("fetched"), its
\* prompt is built ("prompted"), its text is generated ("generated"), a
\* failure is in flight ("except")
StageOrder ==
    {<<"start", "loop">>, <<"start", "raised">>, <<"loop", "loop">>,
     <<"loop", "fetched">>, <<"loop", "except">>, <<"loop", "returned">>,
     <<"fetched", "loop">>, <<"fetched", "prompted">>,
     <<"prompted", "generated">>, <<"prompted", "except">>,
     <<"generated", "loop">>, <<"except", "loop">>}

InStageOrder(from, to) == <<from, to>> \in StageOrder

\* C21: the attempt of each post goes through its stages in the order
\* fetched, filtered, then skipped or prompted, generated, composed; no
\* stage is entered twice for the same post, the content source is not
\* called for a post again, and a failure ends the attempt of that post only
AttemptStagesInOrder ==
    /\ [][InStageOrder(pc, pc')]_vars
    /\ [][pc = "start" \/ idx' = idx \/ idx' = idx + 1]_vars
    /\ [][pc' \in {"fetched", "prompted", "generated", "except"} => idx' = idx]_vars
    /\ [][pc # "start" /\ pc' = "loop" => idx' = idx + 1]_vars
    /\ [][pc = "except" => pc' = "loop" /\ stories' = stories /\ posts' = posts]_vars
    /\ [](\A n \in 1..Len(posts) : Cardinality(RequestsFor(posts[n].id)) <= 1)

\* a post was skipped after its comments were filtered, the next one failed
\* and the one after it was composed
SkippedFailedComposed ==
    /\ Len(log) = 3
    /\ log[1].outcome = "few_valid"
    /\ log[2].outcome = "failed"
    /\ log[3].outcome = "generated"
    /\ pc = "loop"

\* the places in the fetched sequence of the posts of a list of ids
PlaceOf(id) == CHOOSE n \in 1..Len(posts) : posts[n].id = id

\* C22: the batch processes the posts one at a time in fetch order: while a
\* post is in hand exactly the posts before it have ended their attempt,
\* in that order, and the stories are in the order of their source posts
OnePostAtATimeInOrder ==
    /\ pc \in {"loop", "fetched", "prompted", "generated", "except", "returned"} =>
          /\ Len(log) = idx - 1
          /\ \A k \in 1..Len(log) : log[k].post = posts[k].id
    /\ \A a, b \in 1..Len(stories) :
          a < b => PlaceOf(stories[a].source_post.id) < PlaceOf(stories[b].source_post.id)

TwoStoriesAroundSkippedPost ==
    /\ pc = "returned"
    /\ Len(posts) = 3
    /\ Len(stories) = 2
    /\ stories[1].source_post.id = posts[1].id
    /\ stories[2].source_post.id = posts[3].id
    /\ log[2].outcome = "few_comments"

(***************************************************************************)
(* Claims about the client and the configuration                           *)
(***************************************************************************)
\* C23: the provider is resolved once, when the AIClient is constructed: no
\* sequence of generate and probe calls, answered or failing, changes the
\* client's provider name or provider instance, and every call goes to
\* that provider
ProviderResolvedOnce ==
    /\ [][client.state = "built" => client' = client]_vars
    /\ [](client.state = "built" =>
            /\ client.provider_name = SelectedTag
            /\ client.provider = ProviderClass[SelectedTag])
    /\ [](\A k \in 1..Len(calls) : calls[k].provider = client.provider)

\* three calls, one of them failing, the last one made after the
\* environment came to name another provider
CallsAfterEnvChange ==
    /\ Len(calls) = MaxCalls
    /\ \E k \in 1..Len(calls) : calls[k].op = "generate_story" /\ ~calls[k].ok
    /\ calls[Len(calls)].op = "generate_story"
    /\ client.provider_name = "openai"
    /\ from_env(env).ai_provider = "anthropic"
    /\ env # InitialEnv

\* C24: build_story_prompt and generate_from_post leave their inputs
\* unchanged: when they have returned or failed, every field of the post
\* and of each comment, and the order and the length of the comment list,
\* are what they were before the call
InputsUnchanged ==
    /\ [][build_comments' = build_comments /\ build_post' = build_post]_vars
    /\ [](buildPc \in {"done", "composed", "failed"} =>
            /\ build_post = BuildPost
            /\ build_comments \in BuildCommentLists(Len(build_comments)))

\* a story composed of a comment that is cut in the prompt and in the
\* preview, and is whole in the list
ComposedWithLongComment ==
    /\ buildPc = "composed"
    /\ Len(build_comments) = 2
    /\ Len(build_comments[2].body) = CleanMaxLen + 3
    /\ Len(composed.source_comments[2].preview) = PreviewLen + 3
    /\ Len(built.user_prompt) =
          Len(PromptWithoutComments) + (4 + MinBodyLen) + (4 + PromptMaxCommentLen + 3)

(***************************************************************************)
(* Claims about the fetched comments and the calls of the composer         *)
(***************************************************************************)
\* C25: the cleaned body of every comment get_top_comments returns is not
\* empty, at least 20 and at most 1003 characters long: the least length
\* the validity check asks for still holds after the cleaning
CleanedBodyKeepsMinimumLength ==
    fetchPc = "done" =>
        \A k \in 1..Len(result) :
            /\ result[k].body # <<>>
            /\ Len(result[k].body) >= 20
            /\ Len(result[k].body) <= 1000 + 3

\* C26: in a single-post run at most one post has a successful generate
\* call: once the generation has succeeded for a post no later post is
\* attempted, whatever happens while the story is displayed or saved
AtMostOneSuccessfulGenerate ==
    /\ Cardinality({k \in 1..Len(log) : log[k].outcome = "generated"}) <= 1
    /\ \A k \in 1..Len(log) :
          log[k].outcome = "generated" =>
              \A n \in k..Len(log) : log[n].post = log[k].post

\* C27: whenever the environment holds a usable credential for at least
\* one variant (an OpenAI key, an Anthropic key or an AWS profile), the tag
\* Config.from_env chooses is one whose credential is present, and an
\* AIClient constructed with that tag does not fail for a missing credential
AutoSelectedTagHasCredential ==
    (\/ config.openai_api_key \notin {Unset, ""}
     \/ config.anthropic_api_key \notin {Unset, ""}
     \/ config.aws_profile \notin {Unset, ""}) =>
        /\ CredentialOf(config, config.ai_provider) \notin {Unset, ""}
        /\ provider_arg \in {Unset, ""} => client.error # "ValueError"

ComposeInvoked ==
    pc \in {"prompted", "generated", "cli_prompted", "cli_generated", "cli_story"}

\* C29: in a batch run and in a single-post run generate_from_post is only
\* called with at least 3 comments and at most as many as the limit of the
\* fetch (the default comment limit, and 5 in a single-post run), for a
\* post with at least 5 comments
ComposeGetsThreeToLimitComments ==
    /\ ComposeInvoked =>
          /\ Len(comments) >= 3
          /\ pc \in {"prompted", "generated"} =>
                Len(comments) <= default_comment_limit
          /\ pc \in {"cli_prompted", "cli_generated", "cli_story"} =>
                Len(comments) <= 5
          /\ CurrentPost.num_comments >= 5
    /\ \A k \in 1..Len(stories) :
          /\ Len(stories[k].source_comments) \in 3..5
          /\ stories[k].source_post.num_comments >= 5

\* a single-post run composes with the 5 best of 6 valid comments
ComposeWithFiveOfSix ==
    /\ pc = "cli_prompted"
    /\ Len(ValidComments(TreeOf(CurrentPost))) = 6
    /\ Len(comments) = 5
    /\ prompt.post_data.comment_count = 5

\* the generate calls of the batch that failed
FailedGenerations ==
    {k \in 1..Len(log) :
        log[k].outcome = "failed" /\ log[k].exc = "GenerationFailure"}

\* C30: after a batch run there are no more generate calls than fetched
\* posts, as many stories as generate calls that succeeded, and every
\* story is of a different fetched post: no post has two stories and a
\* failed attempt leaves nothing in the result
StoriesMatchSuccessfulCalls ==
    pc = "returned" =>
        /\ Len(requests) <= Len(posts)
        /\ Len(stories) = Len(requests) - Cardinality(FailedGenerations)
        /\ \A k \in 1..Len(stories) :
              \E n \in 1..Len(posts) : stories[k].source_post.id = posts[n].id
        /\ \A a, b \in 1..Len(stories) :
              a # b => stories[a].source_post.id # stories[b].source_post.id
        /\ \A k \in 1..Len(stories) :
              stories[k].source_post.id \notin FailedIds

ThreeCallsTwoStories ==
    /\ pc = "returned"
    /\ Len(requests) = 3
    /\ Cardinality(FailedGenerations) = 1
    /\ Len(stories) = 2

====
